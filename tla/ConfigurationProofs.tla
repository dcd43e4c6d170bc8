------------------------ MODULE ConfigurationProofs -------------------------
(***************************************************************************)
(* For every file, however long and deep, and every choice of sections:    *)
(* each configuration has the parent that the indentation says, the tree   *)
(* that the robot begins with is the one that the file describes, and its  *)
(* copies of it keep what they should and never a pointer to what has been *)
(* deleted.                                                                *)
(***************************************************************************)
EXTENDS Configuration, SequenceTheorems, WellFoundedInduction, TLAPS

LineType == Texts \cup {Blank}
OnStack  == {stack[k] : k \in 1..Len(stack)}
Mine(n)  == {i \in 1..Last - 1 : Owns(n, i)}

(* What the reader's own variables have in common, kids and data aside.    *)
LinesOK == lines \in Seq(LineType) /\ Last >= 1

Stages ==
  /\ reading = "start" => Last = 1 /\ DOMAIN parent = {} /\ Len(stack) = 0
  /\ reading = "lines" => Len(stack) > 0
  /\ reading = "done" => Len(stack) = 0
  /\ stack \in Seq(Nat) /\ DOMAIN parent \subseteq 1..Last - 1

(* The calls under way are those of a path down the tree, and every line   *)
(* read since a call began is inside its tag.                              *)
Path ==
  \A k \in 1..Len(stack) :
    /\ stack[k] \in DOMAIN parent /\ Level(stack[k]) = k - 1
    /\ k > 1 => lines[stack[k]].form = "tag" /\ stack[k - 1] < stack[k]
    /\ \A i \in stack[k] + 1..Last - 1 : Level(i) >= k

ReaderInv == LinesOK /\ Stages /\ Path /\ ParentOwns

(* A configuration has the children whose calls have returned.             *)
KidsOf(n) ==
  /\ kids[n] \in Seq(Nat)
  /\ {kids[n][c] : c \in DOMAIN kids[n]} = {i \in Mine(n) : lines[i].form = "tag"} \ OnStack
  /\ \A c, d \in DOMAIN kids[n] : c < d => kids[n][c] < kids[n][d]

DataOf(n) ==
  /\ DOMAIN data[n] = {lines[i].name : i \in {j \in Mine(n) : lines[j].form = "pair"}}
  /\ \A k \in DOMAIN data[n] : data[n][k] \in 1..Last - 1 /\ LastGiven(n, k, data[n][k])

TreeInv == /\ DOMAIN kids = DOMAIN parent /\ DOMAIN data = DOMAIN parent
           /\ \A n \in DOMAIN parent : KidsOf(n) /\ DataOf(n)

(* The robot does not touch the tree before it is read.                    *)
UseInv == /\ found \in Nat /\ (inner # NoCopy => Divides)
          /\ reading # "done" => found = 0 /\ robot = "constructing"

IInv == /\ ReaderInv /\ UseInv
        /\ robot = "constructing" /\ found = 0 => TreeInv

-----------------------------------------------------------------------------
(* GetLevel counts.                                                        *)
LEMMA LevelNat == ASSUME LinesOK PROVE \A i \in 1..Last : Level(i) \in Nat
<1>1. \A t \in LineType : t.level \in Nat
  BY DEF LineType, Texts, Blank, Line
<1> QED  BY <1>1 DEF LinesOK, Level, Last

(* A further line changes nothing about those before it.                   *)
LEMMA LineAdded ==
  ASSUME LinesOK, GetLine
  PROVE  /\ LinesOK' /\ Last' = Last + 1
         /\ \A i \in 1..Last : lines'[i] = lines[i] /\ Level(i)' = Level(i)
         /\ \A j, i \in 1..Last : Owns(j, i)' <=> Owns(j, i)
<1>1. PICK l \in LineType : lines' = Append(lines, l)
  <2>1. nextLine \in LineType
    BY DEF LinesOK, nextLine, Last
  <2> QED  BY <2>1 DEF GetLine, GetText, GetBlank, GetAgain, NextLine, LineType
<1>2. Last' = Last + 1 /\ LinesOK'
  BY <1>1 DEF LinesOK, Last
<1>3. \A i \in 1..Last : lines'[i] = lines[i]
  BY <1>1 DEF LinesOK, Last
<1>4. \A i \in 1..Last : Level(i)' = Level(i)
  BY <1>3 DEF Level
<1>5. \A j, i \in 1..Last : Owns(j, i)' <=> Owns(j, i)
  <2> SUFFICES ASSUME NEW j \in 1..Last, NEW i \in 1..Last PROVE Owns(j, i)' <=> Owns(j, i)
    OBVIOUS
  <2>1. Last \in Nat
    BY DEF LinesOK, Last
  <2>2. j + 1..i - 1 \subseteq 1..Last
    BY <2>1
  <2> QED  BY <1>4, <2>2 DEF Owns
<1> QED  BY <1>2, <1>3, <1>4, <1>5

(* A line one level inside the current tag belongs to it and to no other.  *)
LEMMA OnlyTopOwns ==
  ASSUME ReaderInv, reading = "lines", nextLine.level = level + 1, NEW n \in DOMAIN parent
  PROVE  Owns(n, Last) <=> n = Top
<1>1. /\ Last \in Nat /\ Last > 1 /\ Top \in DOMAIN parent /\ n \in 1..Last - 1 /\ Top \in 1..Last - 1
      /\ Len(stack) \in Nat /\ Len(stack) > 0
  BY DEF ReaderInv, LinesOK, Stages, Path, Last, Top
<1>2. Level(Last) = Len(stack) /\ Level(Top) = Len(stack) - 1
  BY <1>1 DEF ReaderInv, Path, Top, Level, level, nextLine
<1>3. \A i \in Top + 1..Last - 1 : Level(i) >= Len(stack)
  BY <1>1 DEF ReaderInv, Path, Top
<1>4. ASSUME Owns(n, Last) PROVE n = Top
  <2>1. Level(n) = Len(stack) - 1
    <3>1. Level(n) \in Nat
      BY <1>1, LevelNat DEF ReaderInv
    <3> QED  BY <1>1, <1>2, <1>4, <3>1 DEF Owns
  <2>2. ~(n > Top)
    BY <1>1, <1>3, <2>1
  <2>3. ~(n < Top)
    BY <1>1, <1>2, <1>4 DEF Owns
  <2> QED  BY <1>1, <2>2, <2>3
<1>5. Owns(Top, Last)
  BY <1>1, <1>2, <1>3 DEF Owns
<1> QED  BY <1>4, <1>5

(* A tag whose call is under way belongs to that of its caller alone.      *)
LEMMA OnlyCallerOwns ==
  ASSUME ReaderInv, NEW k \in 2..Len(stack), NEW n \in DOMAIN parent
  PROVE  Owns(n, stack[k]) <=> n = stack[k - 1]
<1>1. /\ Last \in Nat /\ n \in 1..Last - 1 /\ stack[k] \in 1..Last - 1 /\ stack[k - 1] \in 1..Last - 1
      /\ Level(stack[k]) = k - 1 /\ Level(stack[k - 1]) = k - 2 /\ stack[k - 1] < stack[k]
      /\ \A i \in stack[k - 1] + 1..Last - 1 : Level(i) >= k - 1
  BY DEF ReaderInv, LinesOK, Stages, Path, Last
<1>2. ASSUME Owns(n, stack[k]) PROVE n = stack[k - 1]
  <2>1. Level(n) = k - 2
    <3>1. Level(n) \in Nat
      BY <1>1, LevelNat DEF ReaderInv
    <3> QED  BY <1>1, <1>2, <3>1, SMTT(30) DEF Owns
  <2>2. ~(n > stack[k - 1])
    BY <1>1, <2>1
  <2>3. ~(n < stack[k - 1])
    BY <1>1, <1>2 DEF Owns
  <2> QED  BY <1>1, <2>2, <2>3
<1>3. Owns(stack[k - 1], stack[k])
  BY <1>1 DEF Owns
<1> QED  BY <1>2, <1>3

-----------------------------------------------------------------------------
(* The first configuration.                                                *)
LEMMA BeginReader == ASSUME ReaderInv, Begin PROVE ReaderInv'
<1>1. GetLine /\ reading = "start" /\ reading' = "lines" /\ LinesOK
  BY DEF Begin, Call, ReaderInv
<1>2. Last = 1 /\ DOMAIN parent = {} /\ Len(stack) = 0 /\ stack \in Seq(Nat) /\ stack = <<>>
  BY <1>1 DEF ReaderInv, Stages
<1>3. LinesOK' /\ Last' = 2 /\ Level(1)' = 0
  BY <1>1, <1>2, LineAdded DEF Level
<1>4. stack' = <<1>> /\ DOMAIN parent' = {1} /\ parent'[1] = 0
  BY <1>2 DEF Begin, Call, With
<1>5. Stages'
  BY <1>1, <1>3, <1>4 DEF Stages
<1>6. Path'
  BY <1>3, <1>4 DEF Path
<1>7. ParentOwns'
  BY <1>3, <1>4 DEF ParentOwns
<1> QED  BY <1>3, <1>5, <1>6, <1>7 DEF ReaderInv

(* A tag inside the current one is its child and becomes the current one.  *)
LEMMA ReadTagReader == ASSUME ReaderInv, ReadTag PROVE ReaderInv'
<1>1. /\ GetLine /\ reading = "lines" /\ reading' = reading /\ LinesOK
      /\ nextLine.level = level + 1 /\ nextLine.form = "tag"
  BY DEF ReadTag, Inside, Call, ReaderInv
<1>2. /\ LinesOK' /\ Last' = Last + 1
      /\ \A i \in 1..Last : lines'[i] = lines[i] /\ Level(i)' = Level(i)
      /\ \A j, i \in 1..Last : Owns(j, i)' <=> Owns(j, i)
  BY <1>1, LineAdded
<1>3. /\ Last \in Nat /\ Last > 1 /\ Top \in DOMAIN parent /\ Top \in 1..Last - 1
      /\ stack \in Seq(Nat) /\ Len(stack) \in Nat /\ Len(stack) > 0 /\ DOMAIN parent \subseteq 1..Last - 1
  BY <1>1 DEF ReaderInv, LinesOK, Stages, Path, Last, Top
<1>4. Level(Last) = Len(stack)
  BY <1>1, <1>3 DEF Level, level, nextLine
<1>5. stack' = Append(stack, Last) /\ parent' = With(parent, Last, Top)
  BY DEF ReadTag, Call
<1>6. /\ stack' \in Seq(Nat) /\ Len(stack') = Len(stack) + 1 /\ stack'[Len(stack) + 1] = Last
      /\ \A k \in 1..Len(stack) : stack'[k] = stack[k]
  BY <1>3, <1>5
<1>7. /\ DOMAIN parent' = DOMAIN parent \cup {Last} /\ parent'[Last] = Top
      /\ \A n \in DOMAIN parent : parent'[n] = parent[n]
  BY <1>3, <1>5 DEF With
<1>8. Stages'
  BY <1>1, <1>2, <1>3, <1>6, <1>7 DEF Stages
<1>9. Path'
  <2> SUFFICES ASSUME NEW k \in 1..Len(stack) + 1
               PROVE  (/\ stack[k] \in DOMAIN parent /\ Level(stack[k]) = k - 1
                       /\ k > 1 => lines[stack[k]].form = "tag" /\ stack[k - 1] < stack[k]
                       /\ \A i \in stack[k] + 1..Last - 1 : Level(i) >= k)'
    BY <1>2, <1>3, <1>6 DEF Path
  <2>0. PICK new : new = Last
    OBVIOUS
  <2>1. CASE k = Len(stack) + 1
    <3>1. lines[Last].form = "tag" /\ stack[Len(stack)] \in 1..Last - 1
      BY <1>1, <1>3 DEF nextLine, Top
    <3>2. stack'[k] = new /\ new \in 1..Last /\ Level(new)' = k - 1 /\ lines'[new].form = "tag"
      BY <1>1, <1>2, <1>3, <1>4, <1>6, <2>0, <2>1, <3>1
    <3>3. Level(stack[k])' = k - 1
      BY <3>2 DEF Level
    <3>4. k > 1 => stack'[k - 1] < stack'[k]
      BY <1>3, <1>6, <2>0, <2>1, <3>1, <3>2
    <3>5. stack'[k] + 1..Last' - 1 = {}
      BY <1>2, <1>3, <2>0, <3>2
    <3> QED  BY <1>7, <2>0, <3>2, <3>3, <3>4, <3>5
  <2>2. CASE k \in 1..Len(stack)
    <3>1. /\ stack[k] \in DOMAIN parent /\ Level(stack[k]) = k - 1
          /\ k > 1 => lines[stack[k]].form = "tag" /\ stack[k - 1] < stack[k]
          /\ \A i \in stack[k] + 1..Last - 1 : Level(i) >= k
      BY <2>2 DEF ReaderInv, Path
    <3>2. stack'[k] \in 1..Last - 1 /\ stack'[k] = stack[k] /\ (k > 1 => stack'[k - 1] = stack[k - 1])
      <4>1. k > 1 => k - 1 \in 1..Len(stack)
        BY <1>3, <2>2
      <4>2. stack[k] \in 1..Last - 1
        BY <1>3, <3>1
      <4>3. \A m \in 1..Len(stack) : stack'[m] = stack[m]
        BY <1>6
      <4> QED  BY <2>2, <4>1, <4>2, <4>3
    <3>3. \A i \in stack'[k] + 1..Last : Level(i)' >= k
      <4> SUFFICES ASSUME NEW i \in stack'[k] + 1..Last PROVE Level(i)' >= k
        OBVIOUS
      <4>1. i \in 1..Last /\ Level(i)' = Level(i)
        BY <1>2, <1>3, <3>2
      <4> QED  BY <1>3, <1>4, <2>2, <3>1, <3>2, <4>1
    <3>4. PICK old \in 1..Last - 1 : old = stack[k]
      BY <3>2
    <3>5. Level(old)' = k - 1 /\ stack'[k] = old /\ lines'[old] = lines[old]
      BY <1>2, <1>3, <3>1, <3>2, <3>4
    <3>6. Level(stack[k])' = k - 1
      BY <3>5 DEF Level
    <3> QED  BY <1>2, <1>3, <1>7, <3>1, <3>2, <3>3, <3>4, <3>5, <3>6
  <2> QED  BY <1>3, <2>1, <2>2
<1>10. ParentOwns'
  <2> SUFFICES ASSUME NEW i \in DOMAIN parent'
               PROVE  (/\ i \in 1..Last
                       /\ IF i = 1 THEN parent[i] = 0 ELSE parent[i] \in DOMAIN parent /\ Owns(parent[i], i))'
    BY DEF ParentOwns
  <2>1. CASE i = Last
    <3>1. PICK top \in 1..Last : top = Top
      BY <1>3
    <3>2. Owns(top, i)
      BY <1>1, <1>3, <2>1, <3>1, OnlyTopOwns
    <3>3. Owns(top, i)'
      BY <1>2, <1>3, <2>1, <3>1, <3>2
    <3>4. Owns(parent[i], i)'
      BY <1>7, <2>1, <3>1, <3>3 DEF Owns
    <3> QED  BY <1>2, <1>3, <1>7, <2>1, <3>4
  <2>2. CASE i \in DOMAIN parent
    <3>1. /\ i \in 1..Last /\ parent'[i] = parent[i]
          /\ IF i = 1 THEN parent[i] = 0 ELSE parent[i] \in DOMAIN parent /\ Owns(parent[i], i)
      BY <1>7, <2>2 DEF ReaderInv, ParentOwns
    <3>2. CASE i = 1
      BY <1>2, <1>3, <3>1, <3>2
    <3>3. CASE i # 1
      <4>1. PICK top \in 1..Last : top = parent[i] /\ top \in DOMAIN parent' /\ Owns(top, i)
        BY <1>3, <1>7, <3>1, <3>3
      <4>2. Owns(top, i)'
        BY <1>2, <3>1, <4>1
      <4>3. Owns(parent[i], i)'
        BY <3>1, <4>1, <4>2 DEF Owns
      <4> QED  BY <1>2, <1>3, <3>1, <3>3, <4>1, <4>3
    <3> QED  BY <3>2, <3>3
  <2> QED  BY <1>7, <2>1, <2>2
<1> QED  BY <1>2, <1>8, <1>9, <1>10 DEF ReaderInv

(* A value leaves the calls as they are.                                   *)
LEMMA ReadPairReader == ASSUME ReaderInv, ReadPair PROVE ReaderInv'
<1>1. /\ GetLine /\ reading = "lines" /\ reading' = reading /\ LinesOK
      /\ nextLine.level = level + 1 /\ stack' = stack /\ parent' = parent
  BY DEF ReadPair, Inside, ReaderInv
<1>2. /\ LinesOK' /\ Last' = Last + 1
      /\ \A i \in 1..Last : lines'[i] = lines[i] /\ Level(i)' = Level(i)
      /\ \A j, i \in 1..Last : Owns(j, i)' <=> Owns(j, i)
  BY <1>1, LineAdded
<1>3. /\ Last \in Nat /\ Last > 1 /\ stack \in Seq(Nat) /\ Len(stack) \in Nat /\ Len(stack) > 0
      /\ DOMAIN parent \subseteq 1..Last - 1 /\ Level(Last) = Len(stack)
  <2>1. /\ Last \in Nat /\ Last > 1 /\ stack \in Seq(Nat) /\ Len(stack) \in Nat /\ Len(stack) > 0
        /\ DOMAIN parent \subseteq 1..Last - 1
    BY <1>1 DEF ReaderInv, LinesOK, Stages, Path, Last
  <2> QED  BY <1>1, <2>1 DEF Level, level, nextLine
<1>4. Stages'
  BY <1>1, <1>2, <1>3 DEF Stages
<1>5. Path'
  <2> SUFFICES ASSUME NEW k \in 1..Len(stack)
               PROVE  (/\ stack[k] \in DOMAIN parent /\ Level(stack[k]) = k - 1
                       /\ k > 1 => lines[stack[k]].form = "tag" /\ stack[k - 1] < stack[k]
                       /\ \A i \in stack[k] + 1..Last - 1 : Level(i) >= k)'
    BY <1>1 DEF Path
  <2>1. /\ stack[k] \in DOMAIN parent /\ Level(stack[k]) = k - 1
        /\ k > 1 => lines[stack[k]].form = "tag" /\ stack[k - 1] < stack[k]
        /\ \A i \in stack[k] + 1..Last - 1 : Level(i) >= k
    BY DEF ReaderInv, Path
  <2>2. PICK old \in 1..Last - 1 : old = stack[k]
    BY <1>3, <2>1
  <2>3. \A i \in old + 1..Last : Level(i)' >= k
    <3> SUFFICES ASSUME NEW i \in old + 1..Last PROVE Level(i)' >= k
      OBVIOUS
    <3>1. i \in 1..Last /\ Level(i)' = Level(i)
      BY <1>2, <1>3, <2>2
    <3> QED  BY <1>3, <2>1, <2>2, <3>1
  <2>4. Level(old)' = k - 1 /\ lines'[old] = lines[old]
    BY <1>2, <1>3, <2>1, <2>2
  <2>5. Level(stack[k])' = k - 1
    BY <1>1, <2>2, <2>4 DEF Level
  <2> QED  BY <1>1, <1>2, <1>3, <2>1, <2>2, <2>3, <2>4, <2>5
<1>6. ParentOwns'
  <2> SUFFICES ASSUME NEW i \in DOMAIN parent
               PROVE  (/\ i \in 1..Last
                       /\ IF i = 1 THEN parent[i] = 0 ELSE parent[i] \in DOMAIN parent /\ Owns(parent[i], i))'
    BY <1>1 DEF ParentOwns
  <2>1. /\ i \in 1..Last
        /\ IF i = 1 THEN parent[i] = 0 ELSE parent[i] \in DOMAIN parent /\ Owns(parent[i], i)
    BY DEF ReaderInv, ParentOwns
  <2>2. CASE i = 1
    BY <1>1, <1>2, <1>3, <2>1, <2>2
  <2>3. CASE i # 1
    <3>1. PICK top \in 1..Last : top = parent[i] /\ Owns(top, i)
      BY <1>3, <2>1, <2>3
    <3>2. Owns(top, i)'
      BY <1>2, <2>1, <3>1
    <3>3. Owns(parent[i], i)'
      BY <1>1, <3>1, <3>2 DEF Owns
    <3> QED  BY <1>1, <1>2, <1>3, <2>1, <2>3, <3>3
  <2> QED  BY <2>2, <2>3
<1> QED  BY <1>2, <1>4, <1>5, <1>6 DEF ReaderInv

(* A return takes the last tag off the path.                               *)
LEMMA ReturnReader == ASSUME ReaderInv, Return PROVE ReaderInv'
<1>1. /\ stack \in Seq(Nat) /\ Len(stack) \in Nat /\ Len(stack) > 0
      /\ lines' = lines /\ parent' = parent /\ reading = "lines"
      /\ reading' = IF level = 0 THEN "done" ELSE reading
      /\ stack' = SubSeq(stack, 1, Len(stack) - 1)
  BY DEF Return, ReaderInv, Stages
<1>2. /\ stack' \in Seq(Nat) /\ Len(stack') = Len(stack) - 1
      /\ \A k \in 1..Len(stack) - 1 : stack'[k] = stack[k]
  <2> Len(stack) \in Nat /\ Len(stack) > 0
    BY <1>1
  <2>1. PICK n \in Nat : n = Len(stack) - 1
    OBVIOUS
  <2>2. n \in Int /\ stack' = SubSeq(stack, 1, n) /\ \A i \in 1..n : stack[i] \in Nat
    BY <1>1, <2>1
  <2>3. /\ stack' \in Seq(Nat)
        /\ Len(stack') = IF 1 <= n THEN n - 1 + 1 ELSE 0
        /\ \A i \in 1..n - 1 + 1 : stack'[i] = stack[1 + i - 1]
    BY <2>2, SubSeqProperties
  <2>4. n - 1 + 1 = n /\ (~(1 <= n) => n = 0) /\ \A i \in 1..n : 1 + i - 1 = i
    OBVIOUS
  <2>5. Len(stack') = n
    BY <2>3, <2>4
  <2>6. \A k \in 1..n : stack'[k] = stack[k]
    BY <2>3, <2>4
  <2> QED  BY <2>1, <2>3, <2>5, <2>6
<1>3. LinesOK' /\ ParentOwns' /\ Last' = Last /\ \A i : Level(i)' = Level(i)
  BY <1>1 DEF ReaderInv, LinesOK, ParentOwns, Owns, Level, Last
<1>4. Stages'
  BY <1>1, <1>2, <1>3 DEF ReaderInv, Stages, level
<1>5. Path'
  <2> SUFFICES ASSUME NEW k \in 1..Len(stack) - 1
               PROVE  (/\ stack[k] \in DOMAIN parent /\ Level(stack[k]) = k - 1
                       /\ k > 1 => lines[stack[k]].form = "tag" /\ stack[k - 1] < stack[k]
                       /\ \A i \in stack[k] + 1..Last - 1 : Level(i) >= k)'
    BY <1>2 DEF Path
  <2>1. /\ stack[k] \in DOMAIN parent /\ Level(stack[k]) = k - 1
        /\ k > 1 => lines[stack[k]].form = "tag" /\ stack[k - 1] < stack[k]
        /\ \A i \in stack[k] + 1..Last - 1 : Level(i) >= k
    BY <1>1 DEF ReaderInv, Path
  <2>2. stack'[k] = stack[k] /\ (k > 1 => stack'[k - 1] = stack[k - 1])
    <3>1. k > 1 => k - 1 \in 1..Len(stack) - 1
      BY <1>1
    <3> QED  BY <1>2, <3>1
  <2>3. Level(stack[k])' = k - 1
    BY <1>1, <2>1, <2>2 DEF Level
  <2> QED  BY <1>1, <1>3, <2>1, <2>2, <2>3
<1> QED  BY <1>3, <1>4, <1>5 DEF ReaderInv

-----------------------------------------------------------------------------
(* What a further line inside the current tag adds to each configuration.  *)
LEMMA MineGrows ==
  ASSUME ReaderInv, reading = "lines", nextLine.level = level + 1, GetLine,
         NEW n \in DOMAIN parent
  PROVE  Mine(n)' = (IF n = Top THEN Mine(n) \cup {Last} ELSE Mine(n))
<1>1. /\ LinesOK /\ Last' = Last + 1 /\ Last \in Nat /\ Last > 1 /\ n \in 1..Last - 1
      /\ \A j, i \in 1..Last : Owns(j, i)' <=> Owns(j, i)
  BY LineAdded DEF ReaderInv, LinesOK, Stages, Path, Last
<1>2. Mine(n)' = {i \in 1..Last : Owns(n, i)}
  <2>1. 1..Last' - 1 = 1..Last /\ n \in 1..Last
    BY <1>1
  <2> QED  BY <1>1, <2>1 DEF Mine
<1>3. Owns(n, Last) <=> n = Top
  BY OnlyTopOwns
<1>4. 1..Last = (1..Last - 1) \cup {Last}
  BY <1>1
<1> QED  BY <1>2, <1>3, <1>4 DEF Mine

(* A line owns nothing that comes before it.                               *)
LEMMA NewOwnsNothing ==
  ASSUME LinesOK, GetLine, NEW n, n = Last
  PROVE  Mine(n)' = {}
<1>1. Last' = Last + 1 /\ Last \in Nat
  BY LineAdded DEF LinesOK, Last
<1>2. \A i \in 1..Last' - 1 : ~(n < i)
  BY <1>1
<1> QED  BY <1>2 DEF Mine, Owns

(* The calls under way are of different tags.                              *)
LEMMA OnStackOnce ==
  ASSUME ReaderInv, reading = "lines", Return
  PROVE  OnStack' = OnStack \ {Top} /\ Top \in OnStack
<1>1. /\ stack \in Seq(Nat) /\ Len(stack) \in Nat /\ Len(stack) > 0
      /\ stack' = SubSeq(stack, 1, Len(stack) - 1)
  BY DEF Return, ReaderInv, Stages
<1>2. PICK n \in Nat : n = Len(stack) - 1
  <2> Len(stack) \in Nat /\ Len(stack) > 0
    BY <1>1
  <2> QED  OBVIOUS
<1>3. Len(stack) = n + 1 /\ Top = stack[n + 1]
  BY <1>1, <1>2 DEF Top
<1>4. Len(stack') = n /\ \A k \in 1..n : stack'[k] = stack[k]
  <2>1. n \in Int /\ stack' = SubSeq(stack, 1, n) /\ \A i \in 1..n : stack[i] \in Nat
    BY <1>1, <1>2, <1>3
  <2>2. /\ Len(stack') = IF 1 <= n THEN n - 1 + 1 ELSE 0
        /\ \A i \in 1..n - 1 + 1 : stack'[i] = stack[1 + i - 1]
    BY <2>1, SubSeqProperties
  <2>3. n - 1 + 1 = n /\ (~(1 <= n) => n = 0) /\ \A i \in 1..n : 1 + i - 1 = i
    OBVIOUS
  <2> QED  BY <2>2, <2>3
<1>5. \A k \in 1..n + 1 : Level(stack[k]) = k - 1
  BY <1>3 DEF ReaderInv, Path
<1>6. \A k \in 1..n : stack[k] # stack[n + 1]
  <2> SUFFICES ASSUME NEW k \in 1..n, stack[k] = stack[n + 1] PROVE FALSE
    OBVIOUS
  <2>1. Level(stack[k]) = k - 1 /\ Level(stack[n + 1]) = n
    BY <1>5
  <2>2. Level(stack[k]) = n
    BY <2>1
  <2> QED  BY <2>1, <2>2
<1>7. 1..n + 1 = 1..n \cup {n + 1}
  OBVIOUS
<1>8. OnStack' = {stack[k] : k \in 1..n}
  BY <1>4 DEF OnStack
<1>9. OnStack = {stack[k] : k \in 1..n} \cup {stack[n + 1]}
  BY <1>3, <1>7 DEF OnStack
<1> QED  BY <1>3, <1>6, <1>8, <1>9

-----------------------------------------------------------------------------
(* A new configuration has neither children nor values.                    *)
LEMMA NewTree ==
  ASSUME LinesOK, GetLine, NEW n, n = Last, kids'[n] = <<>>, data'[n] = Nothing
  PROVE  KidsOf(n)' /\ DataOf(n)'
<1>1. Mine(n)' = {}
  BY NewOwnsNothing
<1>2. KidsOf(n)'
  BY <1>1 DEF KidsOf
<1>3. DataOf(n)'
  BY <1>1 DEF DataOf, Nothing
<1> QED  BY <1>2, <1>3

(* The first configuration is a tree.                                      *)
LEMMA BeginTree == ASSUME ReaderInv, Begin, TreeInv PROVE TreeInv'
<1>1. LinesOK /\ GetLine /\ Last = 1 /\ DOMAIN parent = {} /\ DOMAIN kids = {} /\ DOMAIN data = {}
  BY DEF ReaderInv, Stages, Begin, Call, TreeInv
<1>2. /\ DOMAIN parent' = {1} /\ DOMAIN kids' = {1} /\ DOMAIN data' = {1}
      /\ kids'[1] = <<>> /\ data'[1] = Nothing
  BY <1>1 DEF Begin, Call, With
<1>3. KidsOf(1)' /\ DataOf(1)'
  BY <1>1, <1>2, NewTree
<1> QED  BY <1>2, <1>3 DEF TreeInv

(* A tag under way is nobody's child yet.                                  *)
LEMMA ReadTagTree == ASSUME ReaderInv, ReadTag, TreeInv PROVE TreeInv'
<1>1. /\ GetLine /\ reading = "lines" /\ LinesOK /\ nextLine.level = level + 1 /\ nextLine.form = "tag"
      /\ stack' = Append(stack, Last) /\ parent' = With(parent, Last, Top)
      /\ kids' = With(kids, Last, <<>>) /\ data' = With(data, Last, Nothing)
  BY DEF ReadTag, Inside, Call, ReaderInv
<1>2. /\ Last' = Last + 1 /\ Last \in Nat /\ Last > 1 /\ DOMAIN parent \subseteq 1..Last - 1
      /\ \A i \in 1..Last : lines'[i] = lines[i]
      /\ \A j, i \in 1..Last : Owns(j, i)' <=> Owns(j, i)
      /\ stack \in Seq(Nat)
  <2>1. /\ Last' = Last + 1 /\ \A i \in 1..Last : lines'[i] = lines[i]
        /\ \A j, i \in 1..Last : Owns(j, i)' <=> Owns(j, i)
    BY <1>1, LineAdded
  <2>2. Last \in Nat /\ DOMAIN parent \subseteq 1..Last - 1 /\ stack \in Seq(Nat)
    BY <1>1 DEF ReaderInv, LinesOK, Stages, Last
  <2>3. Len(stack) \in Nat /\ Len(stack) > 0
    BY <1>1 DEF ReaderInv, Stages
  <2>4. Top \in DOMAIN parent
    BY <2>3 DEF ReaderInv, Path, Top
  <2> QED  BY <2>1, <2>2, <2>4
<1>3. /\ DOMAIN parent' = DOMAIN parent \cup {Last}
      /\ DOMAIN kids' = DOMAIN parent \cup {Last} /\ DOMAIN data' = DOMAIN parent \cup {Last}
      /\ kids'[Last] = <<>> /\ data'[Last] = Nothing
      /\ \A n \in DOMAIN parent : kids'[n] = kids[n] /\ data'[n] = data[n]
  BY <1>1, <1>2 DEF With, TreeInv
<1>4. OnStack' = OnStack \cup {Last}
  <2>1. Last \in Nat
    BY <1>2
  <2>2. /\ Len(stack') = Len(stack) + 1 /\ Len(stack) \in Nat /\ stack'[Len(stack) + 1] = Last
        /\ \A k \in 1..Len(stack) : stack'[k] = stack[k]
    BY <1>1, <1>2, <2>1
  <2>3. 1..Len(stack) + 1 = (1..Len(stack)) \cup {Len(stack) + 1}
    BY <2>2
  <2> QED  BY <2>2, <2>3 DEF OnStack
<1>5. PICK new : new = Last
  OBVIOUS
<1>6. KidsOf(new)' /\ DataOf(new)'
  BY <1>1, <1>3, <1>5, NewTree
<1>7. ASSUME NEW n \in DOMAIN parent PROVE KidsOf(n)' /\ DataOf(n)'
  <2>1. /\ Mine(n) \subseteq 1..Last - 1 /\ KidsOf(n) /\ DataOf(n) /\ n \in 1..Last
        /\ kids'[n] = kids[n] /\ data'[n] = data[n]
    BY <1>2, <1>3, <1>7 DEF Mine, TreeInv
  <2>2. Mine(n)' = Mine(n) \/ Mine(n)' = Mine(n) \cup {Last}
    BY <1>1, <1>7, MineGrows
  <2>3. Last \notin Mine(n) /\ lines'[Last].form = "tag"
    BY <1>1, <1>2, <2>1 DEF nextLine
  <2>4. \A i \in Mine(n) : lines'[i] = lines[i]
    BY <1>2, <2>1
  <2>5. {i \in Mine(n)' : lines'[i].form = "tag"} \ OnStack'
          = {i \in Mine(n) : lines[i].form = "tag"} \ OnStack
    BY <1>4, <2>2, <2>3, <2>4
  <2>6. KidsOf(n)'
    <3>1. kids'[n] \in Seq(Nat) /\ \A c, d \in DOMAIN kids'[n] : c < d => kids'[n][c] < kids'[n][d]
      BY <2>1 DEF KidsOf
    <3>2. {kids'[n][c] : c \in DOMAIN kids'[n]} = {i \in Mine(n)' : lines'[i].form = "tag"} \ OnStack'
      BY <2>1, <2>5, Zenon DEF KidsOf
    <3> QED  BY <3>1, <3>2, Zenon DEF KidsOf
  <2>7. {lines'[i].name : i \in {j \in Mine(n)' : lines'[j].form = "pair"}}
          = {lines[i].name : i \in {j \in Mine(n) : lines[j].form = "pair"}}
    <3>1. {j \in Mine(n)' : lines'[j].form = "pair"} = {j \in Mine(n) : lines[j].form = "pair"}
      BY <2>2, <2>3, <2>4
    <3> QED  BY <2>4, <3>1
  <2>8. ASSUME NEW k \in DOMAIN data[n]
        PROVE  data'[n][k] \in 1..Last /\ LastGiven(n, k, data[n][k])'
    <3>1. PICK i \in 1..Last - 1 : i = data[n][k]
      BY <2>1, <2>8 DEF DataOf
    <3>2. LastGiven(n, k, i)
      BY <2>1, <2>8, <3>1 DEF DataOf
    <3>3. lines'[i].form = "pair" /\ lines'[i].name = k /\ Owns(n, i)'
      BY <1>2, <2>1, <3>1, <3>2 DEF LastGiven
    <3>4. ASSUME NEW j \in i + 1..Last
          PROVE  ~(lines'[j].form = "pair" /\ lines'[j].name = k /\ Owns(n, j)')
      <4>1. j = Last \/ j \in i + 1..Last - 1
        BY <1>2, <3>1
      <4>2. CASE j = Last
        BY <2>3, <4>2
      <4>3. CASE j \in i + 1..Last - 1
        <5>1. ~(lines[j].form = "pair" /\ lines[j].name = k /\ Owns(n, j))
          BY <3>2, <4>3 DEF LastGiven
        <5>2. j \in 1..Last /\ n \in 1..Last
          BY <1>2, <2>1, <3>1, <4>3
        <5> QED  BY <1>2, <5>1, <5>2
      <4> QED  BY <4>1, <4>2, <4>3
    <3>5. LastGiven(n, k, i)'
      <4>1. i + 1..Last' - 1 = i + 1..Last
        BY <1>2
      <4> QED  BY <3>3, <3>4, <4>1 DEF LastGiven
    <3> QED  BY <1>2, <2>1, <3>1, <3>5 DEF LastGiven
  <2>9. DataOf(n)'
    BY <1>2, <2>1, <2>7, <2>8 DEF DataOf
  <2> QED  BY <2>6, <2>9
<1> QED  BY <1>3, <1>5, <1>6, <1>7 DEF TreeInv

(* A value is the last one given for its key, and only the current tag's.  *)
LEMMA ReadPairTree == ASSUME ReaderInv, ReadPair, TreeInv PROVE TreeInv'
<1>1. /\ GetLine /\ reading = "lines" /\ LinesOK /\ nextLine.level = level + 1 /\ nextLine.form = "pair"
      /\ stack' = stack /\ parent' = parent /\ kids' = kids
      /\ data' = [data EXCEPT ![Top] = With(data[Top], nextLine.name, Last)]
  BY DEF ReadPair, Inside, ReaderInv
<1>2. /\ Last' = Last + 1 /\ Last \in Nat /\ Last > 1 /\ DOMAIN parent \subseteq 1..Last - 1
      /\ \A i \in 1..Last : lines'[i] = lines[i]
      /\ \A j, i \in 1..Last : Owns(j, i)' <=> Owns(j, i)
      /\ Top \in DOMAIN parent
  <2>1. /\ Last' = Last + 1 /\ \A i \in 1..Last : lines'[i] = lines[i]
        /\ \A j, i \in 1..Last : Owns(j, i)' <=> Owns(j, i)
    BY <1>1, LineAdded
  <2>2. Last \in Nat /\ DOMAIN parent \subseteq 1..Last - 1
    BY <1>1 DEF ReaderInv, LinesOK, Stages, Last
  <2>3. Len(stack) \in Nat /\ Len(stack) > 0
    BY <1>1 DEF ReaderInv, Stages
  <2>4. Top \in DOMAIN parent
    BY <2>3 DEF ReaderInv, Path, Top
  <2> QED  BY <2>1, <2>2, <2>4
<1>3. /\ DOMAIN data' = DOMAIN parent /\ OnStack' = OnStack
      /\ data'[Top] = With(data[Top], nextLine.name, Last)
      /\ \A n \in DOMAIN parent : n # Top => data'[n] = data[n]
  BY <1>1, <1>2 DEF TreeInv, OnStack
<1>4. ASSUME NEW n \in DOMAIN parent PROVE KidsOf(n)' /\ DataOf(n)'
  <2>1. /\ Mine(n) \subseteq 1..Last - 1 /\ KidsOf(n) /\ DataOf(n) /\ n \in 1..Last /\ kids'[n] = kids[n]
    BY <1>1, <1>2, <1>4 DEF Mine, TreeInv
  <2>2. Mine(n)' = IF n = Top THEN Mine(n) \cup {Last} ELSE Mine(n)
    BY <1>1, <1>4, MineGrows
  <2>3. /\ Last \notin Mine(n) /\ lines'[Last].form = "pair" /\ lines'[Last].name = nextLine.name
        /\ \A i \in Mine(n) : lines'[i] = lines[i]
    BY <1>1, <1>2, <2>1 DEF nextLine
  <2>4. {i \in Mine(n)' : lines'[i].form = "tag"} = {i \in Mine(n) : lines[i].form = "tag"}
    BY <2>2, <2>3
  <2>5. KidsOf(n)'
    <3>1. kids'[n] \in Seq(Nat) /\ \A c, d \in DOMAIN kids'[n] : c < d => kids'[n][c] < kids'[n][d]
      BY <2>1 DEF KidsOf
    <3>2. {kids'[n][c] : c \in DOMAIN kids'[n]} = {i \in Mine(n)' : lines'[i].form = "tag"} \ OnStack'
      BY <1>3, <2>1, <2>4, ZenonT(40) DEF KidsOf
    <3> QED  BY <3>1, <3>2, Zenon DEF KidsOf
  <2>6. ASSUME NEW k, NEW i \in 1..Last - 1, LastGiven(n, k, i),
               ~(n = Top /\ k = nextLine.name)
        PROVE  LastGiven(n, k, i)'
    <3>1. lines'[i].form = "pair" /\ lines'[i].name = k /\ Owns(n, i)'
      BY <1>2, <2>1, <2>6 DEF LastGiven
    <3>2. ASSUME NEW j \in i + 1..Last
          PROVE  ~(lines'[j].form = "pair" /\ lines'[j].name = k /\ Owns(n, j)')
      <4>1. j = Last \/ j \in i + 1..Last - 1
        BY <1>2
      <4>2. CASE j = Last
        BY <1>1, <1>2, <1>4, <2>1, <2>3, <2>6, <4>2, OnlyTopOwns
      <4>3. CASE j \in i + 1..Last - 1
        BY <1>2, <2>1, <2>6, <4>3 DEF LastGiven
      <4> QED  BY <4>1, <4>2, <4>3
    <3> QED  BY <1>2, <3>1, <3>2 DEF LastGiven
  <2>7. CASE n # Top
    <3>1. data'[n] = data[n] /\ Mine(n)' = Mine(n)
      BY <1>3, <1>4, <2>2, <2>7
    <3>2. {lines'[i].name : i \in {j \in Mine(n)' : lines'[j].form = "pair"}}
            = {lines[i].name : i \in {j \in Mine(n) : lines[j].form = "pair"}}
      BY <2>3, <3>1
    <3>3. ASSUME NEW k \in DOMAIN data[n]
          PROVE  data'[n][k] \in 1..Last /\ LastGiven(n, k, data[n][k])'
      <4>1. PICK i \in 1..Last - 1 : i = data[n][k] /\ LastGiven(n, k, i)
        BY <2>1, <3>3 DEF DataOf
      <4>2. LastGiven(n, k, i)'
        BY <2>6, <2>7, <4>1
      <4> QED  BY <1>2, <3>1, <4>1, <4>2 DEF LastGiven
    <3>4. DataOf(n)'
      BY <1>2, <2>1, <3>1, <3>2, <3>3 DEF DataOf
    <3> QED  BY <2>5, <3>4
  <2>8. CASE n = Top
    <3>1. /\ data'[n] = With(data[n], nextLine.name, Last) /\ Mine(n)' = Mine(n) \cup {Last}
      BY <1>3, <2>2, <2>8
    <3>2. /\ DOMAIN data'[n] = DOMAIN data[n] \cup {nextLine.name} /\ data'[n][nextLine.name] = Last
          /\ \A k \in DOMAIN data[n] : k # nextLine.name => data'[n][k] = data[n][k]
      BY <3>1 DEF With
    <3>3. {lines'[i].name : i \in {j \in Mine(n)' : lines'[j].form = "pair"}}
            = {lines[i].name : i \in {j \in Mine(n) : lines[j].form = "pair"}} \cup {nextLine.name}
      <4>1. {j \in Mine(n)' : lines'[j].form = "pair"}
              = {j \in Mine(n) : lines[j].form = "pair"} \cup {Last}
        BY <2>3, <3>1
      <4> QED  BY <2>3, <4>1
    <3>4. ASSUME NEW k \in DOMAIN data'[n]
          PROVE  data'[n][k] \in 1..Last /\ LastGiven(n, k, data[n][k])'
      <4>1. CASE k # nextLine.name
        <5>1. PICK i \in 1..Last - 1 : i = data[n][k] /\ LastGiven(n, k, i)
          BY <2>1, <3>2, <3>4, <4>1 DEF DataOf
        <5>2. LastGiven(n, k, i)' /\ data'[n][k] = i
          BY <2>6, <3>2, <3>4, <4>1, <5>1
        <5> QED  BY <1>2, <5>1, <5>2 DEF LastGiven
      <4>2. CASE k = nextLine.name
        <5>1. PICK new \in 1..Last : new = Last
          BY <1>2
        <5>2. Owns(n, new)'
          BY <1>1, <1>2, <1>4, <2>1, <2>8, <5>1, OnlyTopOwns
        <5>3. LastGiven(n, k, new)'
          <6>1. new + 1..Last' - 1 = {}
            BY <1>2, <5>1
          <6> QED  BY <2>3, <4>2, <5>1, <5>2, <6>1 DEF LastGiven
        <5>4. data'[n][k] = new
          BY <3>2, <4>2, <5>1
        <5> QED  BY <1>2, <5>1, <5>3, <5>4 DEF LastGiven
      <4> QED  BY <4>1, <4>2
    <3>5. DataOf(n)'
      BY <1>2, <2>1, <3>2, <3>3, <3>4 DEF DataOf
    <3> QED  BY <2>5, <3>5
  <2> QED  BY <2>7, <2>8
<1> QED  BY <1>1, <1>3, <1>4 DEF TreeInv

(* A call that returns has come to the end of its tag: its caller adds the *)
(* child, after all those that it has.                                     *)
LEMMA ReturnTree == ASSUME ReaderInv, Return, TreeInv PROVE TreeInv'
<1>1. /\ LinesOK /\ reading = "lines" /\ lines' = lines /\ parent' = parent /\ data' = data
      /\ kids' = IF level = 0 THEN kids ELSE [kids EXCEPT ![stack[level]] = Append(kids[stack[level]], Top)]
  BY DEF Return, ReaderInv
<1>2. OnStack' = OnStack \ {Top} /\ Top \in OnStack
  BY <1>1, OnStackOnce
<1>3. /\ stack \in Seq(Nat) /\ Len(stack) \in Nat /\ Len(stack) > 0 /\ Last \in Nat
      /\ DOMAIN parent \subseteq 1..Last - 1
      /\ Top \in DOMAIN parent /\ Level(Top) = level /\ level \in Nat
      /\ \A i \in Top + 1..Last - 1 : Level(i) >= Len(stack)
  BY <1>1 DEF ReaderInv, LinesOK, Stages, Path, Last, Top, level
<1>4. \A n : Mine(n)' = Mine(n)
  BY <1>1 DEF Mine, Owns, Level, Last
<1>5. DOMAIN kids' = DOMAIN parent' /\ DOMAIN data' = DOMAIN parent'
  BY <1>1 DEF TreeInv
<1>6. ASSUME NEW n \in DOMAIN parent PROVE DataOf(n)'
  <2>1. DataOf(n)
    BY DEF TreeInv
  <2> QED  BY <1>1, <2>1 DEF DataOf, Mine, LastGiven, Owns, Level, Last
<1>7. ASSUME NEW n \in DOMAIN parent, ~Owns(n, Top), kids'[n] = kids[n] PROVE KidsOf(n)'
  <2>1. KidsOf(n) /\ Mine(n)' = Mine(n) /\ Top \notin Mine(n)
    BY <1>4, <1>7 DEF TreeInv, Mine
  <2>2. {i \in Mine(n)' : lines'[i].form = "tag"} \ OnStack'
          = {i \in Mine(n) : lines[i].form = "tag"} \ OnStack
    BY <1>1, <1>2, <2>1
  <2>3. kids'[n] \in Seq(Nat) /\ \A c, d \in DOMAIN kids'[n] : c < d => kids'[n][c] < kids'[n][d]
    BY <1>7, <2>1 DEF KidsOf
  <2>4. {kids'[n][c] : c \in DOMAIN kids'[n]} = {i \in Mine(n)' : lines'[i].form = "tag"} \ OnStack'
    BY <1>7, <2>1, <2>2, ZenonT(30) DEF KidsOf
  <2> QED  BY <2>3, <2>4, Zenon DEF KidsOf
<1>8. CASE level = 0
  <2>1. \A n \in DOMAIN parent : ~Owns(n, Top)
    <3>1. \A n \in DOMAIN parent : Level(n) \in Nat
      BY <1>3, LevelNat DEF ReaderInv
    <3> QED  BY <1>3, <1>8, <3>1 DEF Owns
  <2> QED  BY <1>1, <1>5, <1>6, <1>7, <1>8, <2>1 DEF TreeInv
<1>9. CASE level # 0
  <2>1. Len(stack) \in 2..Len(stack) /\ stack[Len(stack)] = Top /\ Len(stack) - 1 = level
    <3>1. PICK n \in Nat : n = Len(stack)
      BY <1>3
    <3>2. n > 0 /\ n - 1 # 0
      BY <1>3, <1>9, <3>1 DEF level
    <3>3. n \in 2..n
      BY <3>2
    <3> QED  BY <3>1, <3>3 DEF Top, level
  <2>2. PICK caller \in DOMAIN parent : caller = stack[level]
    <3>1. level \in 1..Len(stack)
      BY <1>3, <1>9, <2>1
    <3> QED  BY <3>1 DEF ReaderInv, Path
  <2>3. \A n \in DOMAIN parent : Owns(n, Top) <=> n = caller
    BY <2>1, <2>2, OnlyCallerOwns
  <2>4. /\ kids'[caller] = Append(kids[caller], Top)
        /\ \A n \in DOMAIN parent : n # caller => kids'[n] = kids[n]
    BY <1>1, <1>9, <2>2 DEF TreeInv
  <2>5. \A n \in DOMAIN parent : n # caller => KidsOf(n)'
    BY <1>7, <2>3, <2>4
  <2>6. /\ KidsOf(caller) /\ Mine(caller)' = Mine(caller) /\ Top \in Mine(caller) /\ lines[Top].form = "tag"
        /\ Top \in Nat
    <3>1. lines[Top].form = "tag"
      BY <1>3, <2>1 DEF ReaderInv, Path, Top
    <3> QED  BY <1>3, <1>4, <2>3, <3>1 DEF TreeInv, Mine
  <2>7. ASSUME NEW c \in DOMAIN kids[caller] PROVE kids[caller][c] < Top
    <3>1. PICK i \in Mine(caller) : i = kids[caller][c] /\ i \notin OnStack
      BY <2>6, <2>7 DEF KidsOf
    <3>2. i # Top /\ i \in 1..Last - 1 /\ Owns(caller, i) /\ Owns(caller, Top)
      BY <1>2, <2>6, <3>1 DEF Mine
    <3>3. Level(i) = level
      BY <1>3, <3>2 DEF Owns
    <3>4. ~(i > Top)
      <4>1. level + 1 = Len(stack) /\ ~(level >= Len(stack))
        BY <1>3 DEF level
      <4>2. i > Top => i \in Top + 1..Last - 1
        BY <1>3, <2>6, <3>2
      <4> QED  BY <1>3, <3>3, <4>1, <4>2
    <3> QED  BY <2>6, <3>1, <3>2, <3>4
  <2>8. kids'[caller] \in Seq(Nat) /\ DOMAIN kids'[caller] = DOMAIN kids[caller] \cup {Len(kids[caller]) + 1}
    BY <2>4, <2>6 DEF KidsOf
  <2>9. /\ \A c \in DOMAIN kids[caller] : kids'[caller][c] = kids[caller][c]
        /\ kids'[caller][Len(kids[caller]) + 1] = Top
        /\ DOMAIN kids[caller] = 1..Len(kids[caller]) /\ Len(kids[caller]) \in Nat
    BY <2>4, <2>6 DEF KidsOf
  <2>10. \A c, d \in DOMAIN kids'[caller] : c < d => kids'[caller][c] < kids'[caller][d]
    <3> SUFFICES ASSUME NEW c \in DOMAIN kids'[caller], NEW d \in DOMAIN kids'[caller], c < d
                 PROVE  kids'[caller][c] < kids'[caller][d]
      OBVIOUS
    <3>1. c \in DOMAIN kids[caller]
      BY <2>8, <2>9
    <3>2. CASE d \in DOMAIN kids[caller]
      BY <2>6, <2>9, <3>1, <3>2 DEF KidsOf
    <3>3. CASE d = Len(kids[caller]) + 1
      BY <2>7, <2>9, <3>1, <3>3
    <3> QED  BY <2>8, <3>2, <3>3
  <2>11. {kids'[caller][c] : c \in DOMAIN kids'[caller]}
           = {kids[caller][c] : c \in DOMAIN kids[caller]} \cup {Top}
    BY <2>8, <2>9, SMTT(30)
  <2>12. {i \in Mine(caller)' : lines'[i].form = "tag"} \ OnStack'
           = ({i \in Mine(caller) : lines[i].form = "tag"} \ OnStack) \cup {Top}
    BY <1>1, <1>2, <2>6
  <2>13. {kids'[caller][c] : c \in DOMAIN kids'[caller]} = {i \in Mine(caller)' : lines'[i].form = "tag"} \ OnStack'
    BY <2>6, <2>11, <2>12 DEF KidsOf
  <2>14. KidsOf(caller)'
    BY <2>8, <2>10, <2>13, Zenon DEF KidsOf
  <2> QED  BY <1>1, <1>5, <1>6, <2>5, <2>14 DEF TreeInv
<1> QED  BY <1>8, <1>9

-----------------------------------------------------------------------------
(* What the tree is depends on the reader's variables alone.               *)
LEMMA TreeSame ==
  ASSUME UNCHANGED <<lines, stack, parent, kids, data>>
  PROVE  TreeInv => TreeInv'
<1>1. Last' = Last /\ OnStack' = OnStack /\ \A n : Mine(n)' = Mine(n)
  BY DEF OnStack, Mine, Owns, Level, Last
<1>2. \A n : KidsOf(n) => KidsOf(n)'
  BY <1>1 DEF KidsOf
<1>3. \A n : DataOf(n) => DataOf(n)'
  BY <1>1 DEF DataOf, LastGiven, Owns, Level
<1> QED  BY <1>2, <1>3 DEF TreeInv

(* The reader keeps both invariants.                                       *)
LEMMA ReadKeeps ==
  ASSUME ReaderInv, Read
  PROVE  ReaderInv' /\ (TreeInv => TreeInv')
<1>1. CASE Begin
  BY <1>1, BeginReader, BeginTree
<1>2. CASE ReadTag
  BY <1>2, ReadTagReader, ReadTagTree
<1>3. CASE ReadPair
  BY <1>3, ReadPairReader, ReadPairTree
<1>4. CASE Return
  BY <1>4, ReturnReader, ReturnTree
<1>5. CASE BeginThrows \/ Throw
  <2>1. UNCHANGED <<lines, stack, parent, kids, data>> /\ reading' = "thrown"
    BY <1>5 DEF BeginThrows, Throw
  <2>2. ReaderInv'
    BY <2>1 DEF ReaderInv, LinesOK, Stages, Path, ParentOwns, Owns, Level, Last
  <2>3. TreeInv => TreeInv'
    BY <2>1, TreeSame
  <2> QED  BY <2>2, <2>3
<1> QED  BY <1>1, <1>2, <1>3, <1>4, <1>5 DEF Read

(* The invariant holds at first.                                           *)
LEMMA InitIInv == Init => IInv
<1> SUFFICES ASSUME Init PROVE IInv
  OBVIOUS
<1>1. /\ stack = <<>> /\ DOMAIN parent = {} /\ DOMAIN kids = {} /\ DOMAIN data = {}
      /\ reading = "start" /\ found = 0 /\ inner = NoCopy /\ robot = "constructing"
  BY DEF Init, ReaderInit, Nothing
<1>2. LinesOK /\ Last = 1
  <2>1. PICK l \in LineType : lines = <<l>>
    BY DEF Init, ReaderInit, FirstLine, LineType
  <2> QED  BY <2>1 DEF LinesOK, Last
<1>3. ReaderInv
  BY <1>1, <1>2 DEF ReaderInv, Stages, Path, ParentOwns
<1> QED  BY <1>1, <1>3 DEF IInv, UseInv, TreeInv

(* The robot's use of the tree leaves the lines, and what it does to the   *)
(* tree it does after it has found the first section, or ended.            *)
LEMMA ConstructIInv == ASSUME IInv, Construct PROVE IInv'
<1>1. UNCHANGED <<lines, stack, parent, reading>> /\ reading = "done"
  BY DEF Construct, FindSection, FindPart, EndPart, EndSections, Constructing, reader
<1>2. ReaderInv'
  BY <1>1 DEF IInv, ReaderInv, LinesOK, Stages, Path, ParentOwns, Owns, Level, Last
<1>3. Divided \in Nat /\ Divided # 0
  BY SectionAssumption
<1>4. UseInv' /\ (found' # 0 \/ robot' # "constructing")
  <2>1. CASE FindSection
    <3>1. ~Divides /\ inner' = inner /\ found \in Nat
      BY <2>1 DEF FindSection, IInv, UseInv
    <3>2. \/ found' = found + 1
          \/ robot' = "throwing" /\ found' = found
      BY <2>1 DEF FindSection
    <3> QED  BY <1>1, <3>1, <3>2 DEF IInv, UseInv, NoCopy
  <2>2. CASE FindPart
    BY <1>1, <1>3, <2>2 DEF FindPart, Divides, IInv, UseInv
  <2>3. CASE EndPart
    <3>1. found = Divided /\ found' = found /\ inner' = NoCopy
      BY <2>3 DEF EndPart, Divides, IInv, UseInv
    <3> QED  BY <1>1, <1>3, <3>1 DEF UseInv, NoCopy
  <2>4. CASE EndSections
    BY <1>1, <2>4 DEF EndSections, Divides, IInv, UseInv, NoCopy
  <2> QED  BY <2>1, <2>2, <2>3, <2>4 DEF Construct
<1> QED  BY <1>2, <1>4 DEF IInv

(* Every step keeps the invariant.                                         *)
LEMMA NextIInv == IInv /\ [Next]_vars => IInv'
<1> SUFFICES ASSUME IInv, [Next]_vars PROVE IInv'
  OBVIOUS
<1>1. CASE Read /\ UNCHANGED use
  <2>1. ReaderInv' /\ (TreeInv => TreeInv')
    BY <1>1, ReadKeeps DEF IInv
  <2>2. reading # "done" /\ UNCHANGED <<found, inner, parted, robot>>
    BY <1>1 DEF Read, Begin, BeginThrows, ReadTag, ReadPair, Return, Throw, Inside, use
  <2>3. UseInv'
    BY <2>2 DEF IInv, UseInv, Divides, NoCopy, Nothing
  <2> QED  BY <2>1, <2>2, <2>3 DEF IInv
<1>2. CASE Construct
  BY <1>2, ConstructIInv
<1>3. CASE UNCHANGED vars
  <2>1. ReaderInv'
    BY <1>3 DEF vars, reader, IInv, ReaderInv, LinesOK, Stages, Path, ParentOwns, Owns, Level, Last
  <2>2. UseInv'
    BY <1>3 DEF vars, reader, use, IInv, UseInv, Divides, NoCopy, Nothing
  <2>3. TreeInv => TreeInv'
    BY <1>3, TreeSame DEF vars, reader
  <2> QED  BY <1>3, <2>1, <2>2, <2>3 DEF vars, use, IInv
<1> QED  BY <1>1, <1>2, <1>3 DEF Next

(* A tree whose calls have all returned is whole.                          *)
LEMMA TreeIsWhole == ASSUME ReaderInv, TreeInv PROVE WholeTree
<1>0. ParentOwns
  BY DEF ReaderInv
<1> SUFFICES ASSUME reading = "done", NEW n \in DOMAIN kids
             PROVE  /\ {i \in Mine(n) : lines[i].form = "tag"} = {kids[n][c] : c \in DOMAIN kids[n]}
                    /\ \A c, d \in DOMAIN kids[n] : c < d => kids[n][c] < kids[n][d]
                    /\ DOMAIN data[n] = {lines[i].name : i \in {j \in Mine(n) : lines[j].form = "pair"}}
                    /\ \A k \in DOMAIN data[n] : LastGiven(n, k, data[n][k])
  BY <1>0, Zenon DEF WholeTree, Mine
<1>1. OnStack = {}
  BY DEF ReaderInv, Stages, OnStack
<1>2. KidsOf(n) /\ DataOf(n)
  BY DEF TreeInv
<1> QED  BY <1>1, <1>2 DEF KidsOf, DataOf

(* So it holds for ever.                                                   *)
LEMMA Invariance == Spec => []IInv
BY InitIInv, NextIInv, PTL DEF Spec

(* However many levels the helper's calls return at once, a configuration  *)
(* becomes the child of the tag that the indentation says.                 *)
THEOREM ParentsAsIndented == Spec => []ParentOwns
<1>1. IInv => ParentOwns
  BY DEF IInv, ReaderInv
<1> QED  BY <1>1, Invariance, PTL

(* ReadFromFile gives each configuration the children and the values that  *)
(* the indentation of the file gives it, all of them, in order, and the    *)
(* last of the values that have the same key.                              *)
THEOREM TreeAsWritten == Spec => []TreeRead
<1>1. IInv => TreeRead
  BY TreeIsWhole DEF IInv, TreeRead
<1> QED  BY <1>1, Invariance, PTL
-----------------------------------------------------------------------------
(***************************************************************************)
(* The robot's use of the tree.  Its invariant says which lines have been  *)
(* read, that a configuration has all it was read with unless it lies in   *)
(* the part, or the robot is over, and the same of the copies it holds.    *)
(* Nothing is proved by induction over the tree: the first configuration,  *)
(* or depth, for which a statement is wrong stands for it (Least).         *)
(***************************************************************************)
(* Which lines have been read.                                             *)
FileInv ==
  /\ \A i \in 2..Last - 1 : Level(i) >= 1 /\ (lines[i].form = "tag" <=> i \in DOMAIN parent)
  /\ reading = "start" \/ reading = "thrown" \/ 1 \in DOMAIN parent
  /\ reading \in {"start", "lines", "done", "thrown"}

(* A line inside the tag on line n, however deep.                          *)
Under(n, m) == n < m /\ \A i \in n + 1..m : Level(i) > Level(n)

(* A copy has all that its node was read with, or nothing.                 *)
Whole(copy) ==
  /\ copy.kids \in Seq(Nat)
  /\ Children(copy) = {i \in Mine(copy.node) : lines[i].form = "tag"}
  /\ \A c, d \in DOMAIN copy.kids : c < d => copy.kids[c] < copy.kids[d]
  /\ DOMAIN copy.data = {lines[i].name : i \in {j \in Mine(copy.node) : lines[j].form = "pair"}}
  /\ \A k \in DOMAIN copy.data : copy.data[k] \in 1..Last - 1 /\ LastGiven(copy.node, k, copy.data[k])
Emptied(copy) == copy.kids = <<>> /\ copy.data = Nothing

(* What the robot has emptied is what lies inside the part, until the end. *)
UseTree ==
  /\ DOMAIN kids = DOMAIN parent /\ DOMAIN data = DOMAIN parent
  /\ \A n \in DOMAIN data : data[n] = [k \in DOMAIN data[n] |-> data[n][k]]
  /\ reading = "done" => \A n \in DOMAIN kids :
       Whole(Copy(n)) \/ (Emptied(Copy(n)) /\ (robot = "over" \/ InPart(n)))
  /\ freed \subseteq DOMAIN kids \ {1}

Copied(copy) == 
  copy # NoCopy => /\ copy.node \in DOMAIN kids
                   /\ copy.data = [k \in DOMAIN copy.data |-> copy.data[k]]
                   /\ Whole(copy) \/ (Emptied(copy) /\ InPart(copy.node))

Progress ==
  /\ found \in 0..Len(Sections) /\ robot \in {"constructing", "throwing", "over"}
  /\ parted \in {0} \cup DOMAIN kids
  /\ reading # "done" => current = NoCopy /\ inner = NoCopy /\ parted = 0 /\ freed = {}
  /\ robot # "over" /\ found > 0 => current # NoCopy
  /\ robot # "constructing" => inner = NoCopy
  /\ inner # NoCopy => current.node <= inner.node
  /\ parted = 0 /\ robot # "over" => freed = {}

UIInv == FileInv /\ UseTree /\ Copied(current) /\ Copied(inner) /\ Progress /\ NoDangling /\ FirstOfItsTag
-----------------------------------------------------------------------------
(* Every set of numbers that is not empty has a least element: what stands *)
(* for induction here, on the first number for which something is wrong.   *)
LEMMA Least == ASSUME NEW T \in SUBSET Nat, T # {} PROVE \E x \in T : \A y \in T : x <= y
<1> DEFINE Less == {p \in Nat \X Nat : p[1] < p[2]}
<1>1. IsWellFoundedOn(Less, Nat)
  BY NatLessThanWellFounded DEF OpToRel
<1>2. PICK x \in T : \A y \in T : <<y, x>> \notin Less
  BY <1>1, WFMin
<1>3. \A y \in T : ~(y < x)
  BY <1>2
<1> QED  BY <1>3

(* A line belongs to one tag at most, and lies inside it.                  *)
LEMMA OneOwner ==
  ASSUME LinesOK, NEW i \in 1..Last, NEW m \in 1..Last, NEW n \in 1..Last, Owns(m, i), Owns(n, i)
  PROVE  m = n
<1>1. Last \in Nat /\ Level(i) \in Nat /\ Level(m) \in Nat /\ Level(n) \in Nat
  BY LevelNat DEF LinesOK, Last
<1>2. ASSUME NEW a \in 1..Last, NEW b \in 1..Last, a < b, Owns(a, i), Owns(b, i) PROVE FALSE
  <2>1. b \in a + 1..i - 1 /\ Level(i) = Level(b) + 1 /\ Level(b) \in Nat
    BY <1>1, <1>2, LevelNat DEF Owns
  <2>2. Level(b) >= Level(i)
    BY <1>2, <2>1 DEF Owns
  <2> QED  BY <2>1, <2>2
<1>3. ~(m < n) /\ ~(n < m)
  BY <1>2
<1> QED  BY <1>1, <1>3

LEMMA OwnedUnder ==
  ASSUME LinesOK, NEW i \in 1..Last, NEW n \in 1..Last, Owns(n, i)
  PROVE  Under(n, i)
<1>1. Last \in Nat /\ Level(i) \in Nat /\ Level(n) \in Nat /\ Level(i) = Level(n) + 1 /\ n < i
  BY LevelNat DEF LinesOK, Last, Owns
<1>2. ASSUME NEW j \in n + 1..i PROVE Level(j) > Level(n)
  <2>1. j \in 1..Last /\ (j = i \/ j \in n + 1..i - 1)
    BY <1>1
  <2>2. Level(j) \in Nat /\ Level(j) >= Level(i)
    BY <1>1, <2>1, LevelNat DEF Owns
  <2> QED  BY <1>1, <2>2
<1> QED  BY <1>1, <1>2 DEF Under

LEMMA UnderUnder ==
  ASSUME LinesOK, NEW a \in 1..Last, NEW b \in 1..Last, NEW c \in 1..Last, Under(a, b), Under(b, c)
  PROVE  Under(a, c)
<1>1. /\ Last \in Nat /\ a < b /\ b < c
      /\ \A i \in 1..Last : Level(i) \in Nat
  BY LevelNat DEF LinesOK, Last, Under
<1>2. ASSUME NEW i \in a + 1..c PROVE Level(i) > Level(a)
  <2>1. Level(b) > Level(a) /\ i \in 1..Last
    BY <1>1 DEF Under
  <2>2. i \in a + 1..b \/ (i \in b + 1..c /\ Level(i) > Level(b))
    BY <1>1 DEF Under
  <2> QED  BY <1>1, <2>1, <2>2 DEF Under
<1> QED  BY <1>1, <1>2 DEF Under

(* Two children of a tag: what lies inside the first comes before the      *)
(* second.                                                                 *)
LEMMA Apart ==
  ASSUME LinesOK, NEW n \in 1..Last, NEW c \in 1..Last, NEW d \in 1..Last, NEW m \in 1..Last,
         Owns(n, c), Owns(n, d), c < d, m = c \/ Under(c, m)
  PROVE  m < d
<1>1. Last \in Nat /\ \A i \in 1..Last : Level(i) \in Nat
  BY LevelNat DEF LinesOK, Last
<1>2. Level(c) = Level(d)
  BY <1>1 DEF Owns
<1>3. ASSUME m >= d PROVE FALSE
  <2>1. Under(c, m) /\ d \in c + 1..m
    BY <1>1, <1>3
  <2> QED  BY <1>1, <1>2, <2>1 DEF Under
<1> QED  BY <1>1, <1>3

(* What holds of lines and configurations whenever the reader is done or   *)
(* still reading.                                                          *)
LEMMA Numbers ==
  ASSUME ReaderInv, FileInv
  PROVE  /\ LinesOK /\ Last \in Nat /\ Last >= 1
         /\ \A i \in 1..Last : Level(i) \in Nat
         /\ DOMAIN parent \subseteq 1..Last - 1
         /\ \A i \in DOMAIN parent : i # 1 => /\ lines[i].form = "tag"
                                             /\ parent[i] \in DOMAIN parent /\ Owns(parent[i], i)
<1>1. LinesOK /\ Last \in Nat /\ Last >= 1 /\ DOMAIN parent \subseteq 1..Last - 1
  BY DEF ReaderInv, LinesOK, Stages, Last
<1>2. \A i \in DOMAIN parent : i # 1 => i \in 2..Last - 1
  BY <1>1
<1> QED  BY <1>1, <1>2, LevelNat DEF FileInv, ReaderInv, ParentOwns

(* A configuration inside another one is inside one of its children, or it *)
(* is that child: otherwise look at the first for which this is wrong.     *)
LEMMA ThroughChild ==
  ASSUME ReaderInv, FileInv, NEW n \in DOMAIN parent, NEW m \in DOMAIN parent, Under(n, m)
  PROVE  \E c \in Mine(n) \cap DOMAIN parent : lines[c].form = "tag" /\ (c = m \/ Under(c, m))
<1> DEFINE Good(x) == \E c \in Mine(n) \cap DOMAIN parent : lines[c].form = "tag" /\ (c = x \/ Under(c, x))
           Bad == {x \in DOMAIN parent : Under(n, x) /\ ~Good(x)}
<1> SUFFICES ASSUME Bad # {} PROVE FALSE
  OBVIOUS
<1>1. Last \in Nat /\ DOMAIN parent \subseteq 1..Last - 1 /\ LinesOK /\ \A i \in 1..Last : Level(i) \in Nat
  BY Numbers
<1>2. PICK x \in Bad : \A y \in Bad : x <= y
  <2>1. Bad \in SUBSET Nat
    BY <1>1
  <2> HIDE DEF Bad
  <2> QED  BY <2>1, Least
<1>3. x \in 1..Last - 1 /\ n \in 1..Last - 1 /\ Under(n, x) /\ n < x /\ x # 1
  BY <1>1 DEF Under
<1>4. PICK p \in DOMAIN parent : p = parent[x] /\ Owns(p, x) /\ lines[x].form = "tag"
  BY <1>3, Numbers
<1>5. p \in 1..Last - 1 /\ p < x /\ Level(x) = Level(p) + 1
  BY <1>1, <1>4 DEF Owns
<1>6. CASE p = n
  BY <1>2, <1>3, <1>4, <1>6 DEF Mine
<1>7. CASE p < n
  <2>1. n \in p + 1..x - 1 /\ Level(x) > Level(n)
    BY <1>1, <1>3, <1>5, <1>7 DEF Under
  <2>2. Level(n) >= Level(x)
    BY <1>4, <2>1 DEF Owns
  <2> QED  BY <1>1, <1>3, <2>1, <2>2
<1>8. CASE p > n
  <2>1. Under(n, p)
    BY <1>1, <1>3, <1>5, <1>8 DEF Under
  <2>2. p \notin Bad
    BY <1>1, <1>2, <1>5
  <2>3. PICK c \in Mine(n) \cap DOMAIN parent : lines[c].form = "tag" /\ (c = p \/ Under(c, p))
    BY <2>1, <2>2
  <2>4. c \in 1..Last /\ p \in 1..Last /\ x \in 1..Last /\ Under(p, x)
    BY <1>1, <1>3, <1>4, <1>5, OwnedUnder
  <2>5. Under(c, x)
    BY <1>1, <2>3, <2>4, UnderUnder
  <2> QED  BY <1>2, <2>3, <2>5
<1> QED  BY <1>1, <1>3, <1>5, <1>6, <1>7, <1>8
-----------------------------------------------------------------------------
(* Below is what its recursion says.                                       *)
Inner(S) == UNION {{kids[n][c] : c \in DOMAIN kids[n]} : n \in S}
Chain(f, copy, depth) ==
  f = [d \in 1..depth |-> IF d = 1 THEN {copy.kids[c] : c \in DOMAIN copy.kids}
                          ELSE UNION {{kids[n][c] : c \in DOMAIN kids[n]} : n \in f[d - 1]}]

LEMMA ChainStep ==
  \A copy, f : \A depth \in Nat : Chain(f, copy, depth) =>
    \A d \in 1..depth : f[d] = IF d = 1 THEN Children(copy) ELSE Inner(f[d - 1])
<1> SUFFICES ASSUME NEW copy, NEW f, NEW depth \in Nat, Chain(f, copy, depth), NEW d \in 1..depth
             PROVE  f[d] = IF d = 1 THEN Children(copy) ELSE Inner(f[d - 1])
  OBVIOUS
<1> DEFINE F(e) == IF e = 1 THEN {copy.kids[c] : c \in DOMAIN copy.kids}
                   ELSE UNION {{kids[n][c] : c \in DOMAIN kids[n]} : n \in f[e - 1]}
<1>1. f = [e \in 1..depth |-> F(e)]
  BY Zenon DEF Chain
<1>2. F(d) = IF d = 1 THEN Children(copy) ELSE Inner(f[d - 1])
  BY Zenon DEF Children, Inner
<1> HIDE DEF F
<1>3. f[d] = F(d)
  BY <1>1, Zenon
<1> QED  BY <1>2, <1>3, Zenon

LEMMA ChainExists == ASSUME NEW copy, NEW depth \in Nat PROVE \E f : Chain(f, copy, depth)
<1> DEFINE Bad == {k \in Nat : ~\E f : Chain(f, copy, k)}
<1> SUFFICES ASSUME Bad # {} PROVE FALSE
  OBVIOUS
<1>1. PICK k \in Bad : \A j \in Bad : k <= j
  <2>1. Bad \in SUBSET Nat
    OBVIOUS
  <2> HIDE DEF Bad
  <2> QED  BY <2>1, Least
<1>2. k \in Nat /\ ~\E f : Chain(f, copy, k)
  BY <1>1
<1>3. k # 0
  <2> DEFINE e == [d \in 1..0 |-> Children(copy)]
  <2>2. Chain(e, copy, 0)
    BY DEF Chain
  <2> QED  BY <1>2, <2>2
<1>4. PICK j \in Nat : k = j + 1
  BY <1>2, <1>3
<1>5. j \notin Bad
  BY <1>1, <1>4
<1>6. PICK f : Chain(f, copy, j)
  BY <1>5
<1> DEFINE g == [d \in 1..j + 1 |-> IF d = 1 THEN Children(copy) ELSE Inner(f[d - 1])]
<1>7. \A d \in 1..j : g[d] = f[d]
  <2>2. \A d \in 1..j : f[d] = IF d = 1 THEN Children(copy) ELSE Inner(f[d - 1])
    BY <1>6, ChainStep
  <2> QED  BY <2>2
<1>8. \A d \in 1..j + 1 : d # 1 => g[d - 1] = f[d - 1]
  <2>1. \A d \in 1..j + 1 : d # 1 => d - 1 \in 1..j
    OBVIOUS
  <2> HIDE DEF g
  <2> QED  BY <1>7, <2>1
<1>9. g = [d \in 1..j + 1 |-> IF d = 1 THEN Children(copy) ELSE Inner(g[d - 1])]
  <2> DEFINE h == [d \in 1..j + 1 |-> IF d = 1 THEN Children(copy) ELSE Inner(g[d - 1])]
  <2>1. \A d \in 1..j + 1 : g[d] = h[d]
    BY <1>8
  <2> QED  BY <2>1
<1>10. Chain(g, copy, k)
  <2> HIDE DEF g
  <2> QED  BY <1>4, <1>9, Zenon DEF Chain, Children, Inner
<1> QED  BY <1>2, <1>10

LEMMA ChainsAgree ==
  ASSUME NEW copy, NEW a \in Nat, NEW b \in Nat, NEW f, NEW g, Chain(f, copy, a), Chain(g, copy, b)
  PROVE  \A d \in (1..a) \cap (1..b) : f[d] = g[d]
<1> DEFINE Bad == {d \in (1..a) \cap (1..b) : f[d] # g[d]}
<1> SUFFICES ASSUME Bad # {} PROVE FALSE
  OBVIOUS
<1>1. PICK d \in Bad : \A e \in Bad : d <= e
  <2>1. Bad \in SUBSET Nat
    OBVIOUS
  <2> HIDE DEF Bad
  <2> QED  BY <2>1, Least
<1>2. d \in 1..a /\ d \in 1..b /\ f[d] # g[d]
  BY <1>1
<1>3. /\ f[d] = IF d = 1 THEN Children(copy) ELSE Inner(f[d - 1])
      /\ g[d] = IF d = 1 THEN Children(copy) ELSE Inner(g[d - 1])
  BY <1>2, ChainStep
<1>4. d # 1 /\ d - 1 \in 1..a /\ d - 1 \in 1..b
  BY <1>2, <1>3
<1>5. f[d - 1] = g[d - 1]
  BY <1>1, <1>2, <1>4
<1> QED  BY <1>2, <1>3, <1>5

LEMMA BelowFacts ==
  ASSUME NEW copy
  PROVE  /\ Below(copy, 1) = Children(copy)
         /\ \A d \in Nat \ {0} : Below(copy, d + 1) = Inner(Below(copy, d))
<1>1. ASSUME NEW d \in Nat \ {0} PROVE \E f : Chain(f, copy, d) /\ Below(copy, d) = f[d]
  <2>1. Below(copy, d) = (CHOOSE f : Chain(f, copy, d))[d]
    BY DEF Below, Chain
  <2> QED  BY <2>1, ChainExists
<1>2. ASSUME NEW d \in Nat \ {0}, NEW f, Chain(f, copy, d)
      PROVE  f[d] = IF d = 1 THEN Children(copy) ELSE Inner(f[d - 1])
  <2>1. d \in 1..d /\ d \in Nat
    OBVIOUS
  <2> QED  BY <1>2, <2>1, ChainStep
<1>3. Below(copy, 1) = Children(copy)
  BY <1>1, <1>2
<1>4. ASSUME NEW d \in Nat \ {0} PROVE Below(copy, d + 1) = Inner(Below(copy, d))
  <2>1. d + 1 \in Nat \ {0} /\ d + 1 # 1 /\ d + 1 - 1 = d
    OBVIOUS
  <2>2. PICK f : Chain(f, copy, d) /\ Below(copy, d) = f[d]
    BY <1>1
  <2>3. PICK g : Chain(g, copy, d + 1) /\ Below(copy, d + 1) = g[d + 1]
    BY <1>1, <2>1
  <2>4. g[d + 1] = Inner(g[d])
    BY <1>2, <2>1, <2>3
  <2>5. g[d] = f[d]
    BY <2>1, <2>2, <2>3, ChainsAgree
  <2> QED  BY <2>2, <2>3, <2>4, <2>5
<1> QED  BY <1>3, <1>4
-----------------------------------------------------------------------------
(* The pointers of a copy lead to configurations its node owns.            *)
Owned(copy) == /\ copy.node \in DOMAIN kids
               /\ \A m \in Children(copy) : m \in DOMAIN kids /\ Owns(copy.node, m)
Tree == /\ DOMAIN kids = DOMAIN parent /\ \A n \in DOMAIN kids : Owned(Copy(n))

LEMMA InnerFacts ==
  ASSUME NEW S \in SUBSET DOMAIN kids, NEW m
  PROVE  m \in Inner(S) <=> \E n \in S : m \in Children(Copy(n))
BY DEF Inner, Children, Copy

LEMMA OwnedCopies ==
  ASSUME ReaderInv, FileInv, DOMAIN kids = DOMAIN parent, NEW copy, copy.node \in DOMAIN kids,
         Whole(copy) \/ Emptied(copy)
  PROVE  Owned(copy)
<1>1. CASE Emptied(copy)
  <2>1. Children(copy) = {}
    BY <1>1 DEF Emptied, Children
  <2> QED  BY <2>1 DEF Owned
<1>2. CASE Whole(copy)
  <2> SUFFICES ASSUME NEW m \in Children(copy) PROVE m \in DOMAIN kids /\ Owns(copy.node, m)
    BY DEF Owned
  <2>1. m \in 1..Last - 1 /\ Owns(copy.node, m) /\ lines[m].form = "tag"
    BY <1>2 DEF Whole, Mine
  <2>2. m \in 2..Last - 1
    BY <2>1, Numbers DEF Owns
  <2> QED  BY <2>1, <2>2 DEF FileInv
<1> QED  BY <1>1, <1>2

(* What lies below a copy by its pointers lies inside its tag.             *)
LEMMA BelowUnder ==
  ASSUME ReaderInv, FileInv, Tree, NEW copy, Owned(copy), NEW d \in Nat \ {0}, NEW m \in Below(copy, d)
  PROVE  m \in DOMAIN kids /\ Under(copy.node, m)
<1> DEFINE Fine(e) == \A x \in Below(copy, e) : x \in DOMAIN kids /\ Under(copy.node, x)
           Bad == {e \in Nat \ {0} : ~Fine(e)}
<1> SUFFICES ASSUME Bad # {} PROVE FALSE
  OBVIOUS
<1>1. PICK e \in Bad : \A x \in Bad : e <= x
  <2>1. Bad \in SUBSET Nat
    OBVIOUS
  <2> HIDE DEF Bad
  <2> QED  BY <2>1, Least
<1>2. e \in Nat \ {0}
  BY <1>1
<1>3. \A n \in DOMAIN kids : \A x \in Children(Copy(n)) : x \in DOMAIN kids /\ Owns(n, x)
  BY DEF Tree, Owned, Copy
<1>4. \A x, y \in DOMAIN kids : x \in 1..Last /\ (Owns(x, y) => Under(x, y))
  BY Numbers, OwnedUnder DEF Tree
<1>5. CASE e = 1
  <2>1. Below(copy, e) = Children(copy)
    BY <1>5, BelowFacts
  <2> QED  BY <1>1, <1>4, <2>1 DEF Owned
<1>6. CASE e # 1
  <2>1. PICK b \in Nat \ {0} : e = b + 1
    <3>1. e - 1 \in Nat \ {0} /\ e = (e - 1) + 1
      BY <1>2, <1>6
    <3> QED  BY <3>1
  <2>2. Fine(b)
    BY <1>1, <2>1
  <2>3. Below(copy, e) = Inner(Below(copy, b)) /\ Below(copy, b) \in SUBSET DOMAIN kids
    BY <2>1, <2>2, BelowFacts
  <2>4. ASSUME NEW x \in Below(copy, e) PROVE x \in DOMAIN kids /\ Under(copy.node, x)
    <3>1. PICK n \in Below(copy, b) : x \in Children(Copy(n))
      BY <2>3, InnerFacts
    <3>2. n \in DOMAIN kids /\ x \in DOMAIN kids /\ Under(n, x) /\ Under(copy.node, n)
      BY <1>3, <1>4, <2>2, <3>1
    <3> QED  BY <1>4, <3>2, UnderUnder, Numbers DEF Owned
  <2> QED  BY <1>1, <2>4
<1> QED  BY <1>5, <1>6

(* What the destructor of a copy cleans up and deletes.                    *)
LEMMA Destroyed ==
  ASSUME ReaderInv, FileInv, Tree, NEW copy, Owned(copy)
  PROVE  /\ \A m \in CleanedUp(copy) \cup Deleted(copy) : m \in DOMAIN kids /\ Under(copy.node, m)
         /\ \A m \in Deleted(copy) : \E p \in CleanedUp(copy) : m \in Children(Copy(p))
<1>1. \A m \in CleanedUp(copy) \cup Deleted(copy) : \E d \in Nat \ {0} : m \in Below(copy, d)
  BY DEF CleanedUp, Deleted, AtDepths
<1>2. ASSUME NEW m \in Deleted(copy) PROVE \E p \in CleanedUp(copy) : m \in Children(Copy(p))
  <2>1. PICK d \in 1..Last : d % 2 = 0 /\ m \in Below(copy, d)
    BY DEF Deleted, AtDepths
  <2>2. Last \in Nat
    BY Numbers
  <2>3. PICK b \in 1..Last : d = b + 1 /\ b % 2 = 1
    <3>1. d - 1 \in 1..Last /\ (d - 1) % 2 = 1
      BY <2>1, <2>2
    <3> QED  BY <2>2, <3>1
  <2>4. b \in Nat \ {0}
    BY <2>2
  <2>5. Below(copy, b) \in SUBSET DOMAIN kids
    BY <2>4, BelowUnder
  <2>6. PICK p \in Below(copy, b) : m \in Children(Copy(p))
    BY <2>1, <2>3, <2>4, <2>5, BelowFacts, InnerFacts
  <2>7. p \in CleanedUp(copy)
    BY <2>3, <2>6 DEF CleanedUp, AtDepths
  <2> QED  BY <2>6, <2>7
<1> QED  BY <1>1, <1>2, BelowUnder

LEMMA NothingBelow == CleanedUp(NoCopy) = {} /\ Deleted(NoCopy) = {}
<1> DEFINE Bad == {d \in Nat \ {0} : Below(NoCopy, d) # {}}
<1>1. Bad = {}
  <2> SUFFICES ASSUME Bad # {} PROVE FALSE
    OBVIOUS
  <2>1. PICK d \in Bad : \A x \in Bad : d <= x
    <3>1. Bad \in SUBSET Nat
      OBVIOUS
    <3> HIDE DEF Bad
    <3> QED  BY <3>1, Least
  <2>2. d # 1
    <3>1. Below(NoCopy, 1) = {}
      BY BelowFacts DEF Children, NoCopy
    <3> QED  BY <2>1, <3>1
  <2>3. PICK b \in Nat \ {0} : d = b + 1
    <3>1. d - 1 \in Nat \ {0} /\ d = (d - 1) + 1
      BY <2>1, <2>2
    <3> QED  BY <3>1
  <2>4. Below(NoCopy, b) = {}
    BY <2>1, <2>3
  <2>5. Below(NoCopy, d) = Inner({})
    BY <2>3, <2>4, BelowFacts
  <2> QED  BY <2>1, <2>5 DEF Inner
<1>2. \A d \in 1..Last : Below(NoCopy, d) = {}
  BY <1>1
<1> QED  BY <1>2 DEF CleanedUp, Deleted, AtDepths
-----------------------------------------------------------------------------
(* A line that is taken for a tag or a value is the last one got.          *)
LEMMA FileRead == ASSUME ReaderInv, FileInv, Read PROVE FileInv'
<1>1. LinesOK /\ Last \in Nat /\ Last >= 1 /\ DOMAIN parent \subseteq 1..Last - 1 /\ MaxLines >= 1
  BY Numbers, ReaderAssumption
<1>2. CASE Begin
  <2>1. GetLine /\ Last = 1 /\ DOMAIN parent = {} /\ DOMAIN parent' = {1} /\ reading' = "lines"
    BY <1>2 DEF Begin, Call, With, ReaderInv, Stages
  <2>2. Last' = 2
    BY <1>1, <2>1, LineAdded
  <2> QED  BY <1>1, <2>1, <2>2 DEF FileInv
<1>3. CASE ReadTag
  <2>1. /\ GetLine /\ nextLine.form = "tag" /\ nextLine.level = level + 1 /\ reading' = reading
        /\ DOMAIN parent' = DOMAIN parent \cup {Last} /\ Len(stack) \in Nat /\ reading = "lines"
    BY <1>3 DEF ReadTag, Inside, Call, With, ReaderInv, Stages
  <2>2. /\ Last' = Last + 1
        /\ \A i \in 1..Last : lines'[i] = lines[i] /\ Level(i)' = Level(i)
    BY <1>1, <2>1, LineAdded
  <2>3. Last > 1 /\ Len(stack) > 0
    BY <1>1, <2>1 DEF ReaderInv, Stages, FileInv
  <2>4. Level(Last) >= 1 /\ lines[Last].form = "tag"
    BY <2>1, <2>3 DEF Level, level, nextLine
  <2>5. ASSUME NEW i \in 2..Last
        PROVE  Level(i)' >= 1 /\ (lines'[i].form = "tag" <=> i \in DOMAIN parent')
    <3>1. i \in 1..Last /\ (i = Last \/ i \in 2..Last - 1)
      BY <1>1
    <3> QED  BY <2>1, <2>2, <2>4, <3>1 DEF FileInv
  <2>6. Last' - 1 = Last
    BY <1>1, <2>2
  <2> QED  BY <1>1, <2>1, <2>2, <2>5, <2>6 DEF FileInv
<1>4. CASE ReadPair
  <2>1. /\ GetLine /\ nextLine.form = "pair" /\ nextLine.level = level + 1 /\ reading' = reading
        /\ parent' = parent /\ Len(stack) \in Nat /\ reading = "lines"
    BY <1>4 DEF ReadPair, Inside, ReaderInv, Stages
  <2>2. /\ Last' = Last + 1
        /\ \A i \in 1..Last : lines'[i] = lines[i] /\ Level(i)' = Level(i)
    BY <1>1, <2>1, LineAdded
  <2>3. Last > 1 /\ Len(stack) > 0
    BY <1>1, <2>1 DEF ReaderInv, Stages, FileInv
  <2>4. Level(Last) >= 1 /\ lines[Last].form # "tag" /\ Last \notin DOMAIN parent
    BY <1>1, <2>1, <2>3 DEF Level, level, nextLine
  <2>5. ASSUME NEW i \in 2..Last
        PROVE  Level(i)' >= 1 /\ (lines'[i].form = "tag" <=> i \in DOMAIN parent')
    <3>1. i \in 1..Last /\ (i = Last \/ i \in 2..Last - 1)
      BY <1>1
    <3> QED  BY <2>1, <2>2, <2>4, <3>1 DEF FileInv
  <2>6. Last' - 1 = Last
    BY <1>1, <2>2
  <2> QED  BY <1>1, <2>1, <2>2, <2>5, <2>6 DEF FileInv
<1>5. CASE Return \/ BeginThrows \/ Throw
  <2>1. lines' = lines /\ parent' = parent /\ reading' \in {reading, "done", "thrown"}
        /\ (reading' = "done" => reading = "lines")
    BY <1>5 DEF Return, BeginThrows, Throw
  <2> QED  BY <2>1 DEF FileInv, Last, nextLine, Level
<1> QED  BY <1>2, <1>3, <1>4, <1>5 DEF Read

(* A tree whose calls have all returned, as in TreeIsWhole.                *)
LEMMA AllWhole == ReaderInv /\ TreeInv /\ reading = "done" => \A n \in DOMAIN kids : Whole(Copy(n))
<1> SUFFICES ASSUME ReaderInv, TreeInv, reading = "done", NEW n \in DOMAIN kids PROVE Whole(Copy(n))
  OBVIOUS
<1>1. OnStack = {}
  BY DEF ReaderInv, Stages, OnStack
<1>2. KidsOf(n) /\ DataOf(n)
  BY DEF TreeInv
<1>3. Copy(n).node = n /\ Copy(n).kids = kids[n] /\ Copy(n).data = data[n]
  BY DEF Copy
<1> QED  BY <1>1, <1>2, <1>3 DEF KidsOf, DataOf, Whole, Children

(* The values of a configuration are a function, always.                   *)
Valued == DOMAIN data = DOMAIN parent /\ \A n \in DOMAIN data : data[n] = [k \in DOMAIN data[n] |-> data[n][k]]

LEMMA ValuedRead ==
  ASSUME ReaderInv, Valued, DOMAIN kids = DOMAIN parent, Read
  PROVE  Valued' /\ DOMAIN kids' = DOMAIN parent'
<1>1. CASE Begin \/ ReadTag
  <2>1. \E owner : parent' = With(parent, Last, owner) /\ kids' = With(kids, Last, <<>>)
                   /\ data' = With(data, Last, Nothing)
    BY <1>1 DEF Begin, ReadTag, Call
  <2>2. /\ DOMAIN kids' = DOMAIN parent' /\ DOMAIN data' = DOMAIN parent'
        /\ \A n \in DOMAIN data' : data'[n] = Nothing \/ (n \in DOMAIN data /\ data'[n] = data[n])
    BY <2>1 DEF With, Valued
  <2>3. Nothing = [k \in DOMAIN Nothing |-> Nothing[k]]
    BY DEF Nothing
  <2> QED  BY <2>2, <2>3 DEF Valued
<1>2. CASE ReadPair
  <2>1. /\ kids' = kids /\ parent' = parent /\ DOMAIN data' = DOMAIN data
        /\ \A n \in DOMAIN data : \/ data'[n] = data[n]
                                  \/ data'[n] = With(data[n], nextLine.name, Last)
    BY <1>2 DEF ReadPair
  <2>2. \A f, x, v : With(f, x, v) = [k \in DOMAIN With(f, x, v) |-> With(f, x, v)[k]]
    BY DEF With
  <2> QED  BY <2>1, <2>2 DEF Valued
<1>3. CASE Return \/ BeginThrows \/ Throw
  <2>1. parent' = parent /\ data' = data /\ DOMAIN kids' = DOMAIN kids
    BY <1>3 DEF Return, BeginThrows, Throw
  <2> QED  BY <2>1 DEF Valued
<1> QED  BY <1>1, <1>2, <1>3 DEF Read

LEMMA ReadUse ==
  ASSUME IInv, IInv', UIInv, Read, UNCHANGED use
  PROVE  UIInv'
<1>1. /\ reading # "done" /\ current = NoCopy /\ inner = NoCopy /\ parted = 0 /\ freed = {}
      /\ found = 0 /\ robot = "constructing"
  BY DEF Read, Begin, BeginThrows, ReadTag, ReadPair, Return, Throw, Inside, UIInv, Progress, IInv, UseInv
<1>2. FileInv'
  BY FileRead DEF IInv, UIInv
<1>3. Valued' /\ DOMAIN kids' = DOMAIN parent'
  BY ValuedRead DEF IInv, UIInv, UseTree, Valued
<1>4. reading' = "done" => (\A n \in DOMAIN kids : Whole(Copy(n)))'
  <2>1. ReaderInv' /\ TreeInv'
    BY <1>1 DEF use, IInv
  <2>2. (ReaderInv /\ TreeInv /\ reading = "done" => \A n \in DOMAIN kids : Whole(Copy(n)))'
    BY AllWhole, PTL
  <2> QED  BY <2>1, <2>2
<1>5. UseTree'
  BY <1>1, <1>3, <1>4 DEF UseTree, Valued, use
<1>6. Copied(current)' /\ Copied(inner)'
  BY <1>1 DEF Copied, use, NoCopy, Nothing
<1>7. Progress' /\ NoDangling' /\ FirstOfItsTag'
  BY <1>1 DEF Progress, NoDangling, FirstOfItsTag, Children, NoCopy, Nothing, use, UIInv
<1> QED  BY <1>2, <1>5, <1>6, <1>7 DEF UIInv
-----------------------------------------------------------------------------
(* FindConfigurationByTag is what its recursion says.                      *)
Search(f, tag, S) == f = [n \in S |-> IF Tag(n) = tag THEN n ELSE FirstFound(kids[n], f)]

LEMMA SearchAt ==
  \A f, tag, S : Search(f, tag, S) =>
    \A n \in S : f[n] = IF Tag(n) = tag THEN n ELSE FirstFound(kids[n], f)
<1> SUFFICES ASSUME NEW f, NEW tag, NEW S, Search(f, tag, S), NEW n \in S
             PROVE  f[n] = IF Tag(n) = tag THEN n ELSE FirstFound(kids[n], f)
  OBVIOUS
<1> DEFINE F(x) == IF Tag(x) = tag THEN x ELSE FirstFound(kids[x], f)
<1>1. f = [x \in S |-> F(x)]
  BY Zenon DEF Search
<1> HIDE DEF F
<1>2. f[n] = F(n)
  BY <1>1, Zenon
<1> QED  BY <1>2 DEF F

(* What the first child that finds anything finds.                         *)
LEMMA FirstSame ==
  \A children \in Seq(Nat) : \A f, g : (\A c \in DOMAIN children : f[children[c]] = g[children[c]])
                                       => FirstFound(children, f) = FirstFound(children, g)
<1> SUFFICES ASSUME NEW children \in Seq(Nat), NEW f, NEW g,
                    \A c \in DOMAIN children : f[children[c]] = g[children[c]]
             PROVE  FirstFound(children, f) = FirstFound(children, g)
  OBVIOUS
<1> DEFINE F == {c \in DOMAIN children : f[children[c]] # 0}
           G == {c \in DOMAIN children : g[children[c]] # 0}
<1>1. F = G
  OBVIOUS
<1>2. F = {} => FirstFound(children, f) = 0 /\ FirstFound(children, g) = 0
  BY <1>1 DEF FirstFound
<1>3. ASSUME F # {} PROVE FirstFound(children, f) = FirstFound(children, g)
  <2>1. Min(F) \in F
    <3>1. F \in SUBSET Nat
      OBVIOUS
    <3> HIDE DEF F
    <3>2. \E x \in F : \A y \in F : x <= y
      BY <1>3, <3>1, Least
    <3> QED  BY <3>2 DEF Min
  <2>2. FirstFound(children, f) = f[children[Min(F)]]
    BY <1>3 DEF FirstFound
  <2>3. FirstFound(children, g) = g[children[Min(G)]]
    BY <1>1, <1>3 DEF FirstFound
  <2> QED  BY <1>1, <2>1, <2>2, <2>3
<1> QED  BY <1>2, <1>3

LEMMA FirstFacts ==
  \A children \in Seq(Nat) : \A f :
    \/ FirstFound(children, f) = 0 /\ \A c \in DOMAIN children : f[children[c]] = 0
    \/ \E c \in DOMAIN children :
         /\ f[children[c]] # 0 /\ FirstFound(children, f) = f[children[c]]
         /\ \A d \in DOMAIN children : d < c => f[children[d]] = 0
<1> SUFFICES ASSUME NEW children \in Seq(Nat), NEW f
             PROVE  \/ FirstFound(children, f) = 0 /\ \A c \in DOMAIN children : f[children[c]] = 0
                    \/ \E c \in DOMAIN children :
                         /\ f[children[c]] # 0 /\ FirstFound(children, f) = f[children[c]]
                         /\ \A d \in DOMAIN children : d < c => f[children[d]] = 0
  OBVIOUS
<1> DEFINE hits == {c \in DOMAIN children : f[children[c]] # 0}
<1>1. CASE hits = {}
  BY <1>1 DEF FirstFound
<1>2. CASE hits # {}
  <2>1. hits \in SUBSET Nat
    OBVIOUS
  <2>2. \E x \in hits : \A y \in hits : x <= y
    <3> HIDE DEF hits
    <3> QED  BY <1>2, <2>1, Least
  <2>3. Min(hits) \in hits /\ \A y \in hits : Min(hits) <= y
    <3> HIDE DEF hits
    <3> QED  BY <2>2 DEF Min
  <2>4. FirstFound(children, f) = f[children[Min(hits)]]
    BY <1>2 DEF FirstFound
  <2>5. PICK c \in hits : c = Min(hits)
    BY <2>3
  <2>6. \A d \in DOMAIN children : d < c => f[children[d]] = 0
    <3> SUFFICES ASSUME NEW d \in DOMAIN children, d < c, f[children[d]] # 0 PROVE FALSE
      OBVIOUS
    <3>1. d \in hits /\ c <= d
      BY <2>3, <2>5
    <3> QED  BY <2>1, <3>1
  <2> QED  BY <2>4, <2>5, <2>6
<1> QED  BY <1>1, <1>2

LEMMA SearchExists ==
  ASSUME ReaderInv, FileInv, Tree, \A n \in DOMAIN kids : kids[n] \in Seq(Nat), NEW tag
  PROVE  \E f : Search(f, tag, DOMAIN kids)
<1> DEFINE From(k) == {n \in DOMAIN kids : n > Last - k}
           Bad == {k \in Nat : ~\E f : Search(f, tag, From(k))}
<1>1. Last \in Nat /\ DOMAIN kids \subseteq 1..Last - 1 /\ DOMAIN kids = DOMAIN parent
  BY Numbers DEF Tree
<1>2. Bad = {}
  <2> SUFFICES ASSUME Bad # {} PROVE FALSE
    OBVIOUS
  <2>1. PICK k \in Bad : \A x \in Bad : k <= x
    <3>1. Bad \in SUBSET Nat
      OBVIOUS
    <3> HIDE DEF Bad
    <3> QED  BY <3>1, Least
  <2>2. k # 0
    <3> DEFINE e == [n \in {} |-> 0]
    <3>1. From(0) = {}
      BY <1>1
    <3>2. Search(e, tag, {})
      BY DEF Search
    <3> HIDE DEF From, e
    <3> QED  BY <2>1, <3>1, <3>2
  <2>3. PICK j \in Nat : k = j + 1
    BY <2>1, <2>2
  <2>4. j \notin Bad
    <3> HIDE DEF Bad
    <3> QED  BY <2>1, <2>3
  <2>5. PICK f : Search(f, tag, From(j))
    BY <2>4
  <2> DEFINE g == [n \in From(j + 1) |-> IF Tag(n) = tag THEN n ELSE FirstFound(kids[n], f)]
  <2>6. \A n \in From(j) : g[n] = f[n]
    <3>1. \A n \in From(j) : f[n] = IF Tag(n) = tag THEN n ELSE FirstFound(kids[n], f)
      BY <2>5, SearchAt
    <3>2. From(j) \subseteq From(j + 1)
      BY <1>1
    <3> HIDE DEF From
    <3> QED  BY <3>1, <3>2
  <2>7. \A n \in From(j + 1) : FirstFound(kids[n], f) = FirstFound(kids[n], g)
    <3> SUFFICES ASSUME NEW n \in From(j + 1) PROVE FirstFound(kids[n], f) = FirstFound(kids[n], g)
      OBVIOUS
    <3>1. ASSUME NEW c \in DOMAIN kids[n] PROVE kids[n][c] \in From(j)
      <4>1. kids[n][c] \in Children(Copy(n))
        BY DEF Children, Copy
      <4>2. kids[n][c] \in DOMAIN kids /\ Owns(n, kids[n][c])
        BY <4>1 DEF Tree, Owned, Copy
      <4> QED  BY <1>1, <4>2 DEF Owns
    <3>2. kids[n] \in Seq(Nat) /\ \A c \in DOMAIN kids[n] : f[kids[n][c]] = g[kids[n][c]]
      BY <2>6, <3>1
    <3> HIDE DEF g
    <3> QED  BY <3>2, FirstSame
  <2>8. g = [n \in From(j + 1) |-> IF Tag(n) = tag THEN n ELSE FirstFound(kids[n], g)]
    <3> DEFINE h == [n \in From(j + 1) |-> IF Tag(n) = tag THEN n ELSE FirstFound(kids[n], g)]
    <3>1. \A n \in From(j + 1) : g[n] = h[n]
      BY <2>7
    <3> HIDE DEF From
    <3> QED  BY <3>1
  <2>9. Search(g, tag, From(k))
    <3> HIDE DEF g, From
    <3> QED  BY <2>3, <2>8, Zenon DEF Search
  <2> HIDE DEF From, g
  <2> QED  BY <2>1, <2>9
<1>3. From(Last) = DOMAIN kids
  <2>1. \A n \in DOMAIN kids : n > Last - Last
    BY <1>1
  <2> QED  BY <2>1
<1> HIDE DEF From
<1> QED  BY <1>1, <1>2, <1>3
-----------------------------------------------------------------------------
(* The tree as a search meets it.                                          *)
Searched ==
  /\ ReaderInv /\ FileInv /\ Tree /\ UseTree /\ reading = "done" /\ robot # "over"
  /\ parted \in {0} \cup DOMAIN kids
  /\ \A n \in DOMAIN kids : kids[n] \in Seq(Nat)
  /\ \A n \in DOMAIN kids \ freed : Children(Copy(n)) \cap freed = {}

LEMMA PartUnder ==
  ASSUME ReaderInv, FileInv, DOMAIN kids = DOMAIN parent, parted \in {0} \cup DOMAIN kids,
         NEW n \in DOMAIN kids, NEW m \in DOMAIN kids, InPart(n), Under(n, m)
  PROVE  InPart(m)
<1>1. parted \in 1..Last /\ n \in 1..Last /\ m \in 1..Last /\ LinesOK /\ Under(parted, n) /\ parted # 0
  BY Numbers DEF InPart, Under
<1>2. Under(parted, m)
  BY <1>1, UnderUnder
<1> QED  BY <1>1, <1>2 DEF InPart, Under

(* From a configuration a search finds itself or what lies inside it, and  *)
(* nothing of that tag comes before.                                       *)
Within(n, m) == n = m \/ Under(n, m)
Finds(n, tag, r) ==
  /\ r # 0 => r \in DOMAIN kids /\ Within(n, r)
  /\ \A m \in Tagged(tag) : Within(n, m) => r # 0 /\ r <= m
  /\ r # 0 /\ n \notin freed => r \notin freed

(* What the children of a configuration find, it finds.                    *)
Pointing(copy) ==
  /\ copy.node \in DOMAIN kids /\ copy.kids \in Seq(Nat) /\ Owned(copy)
  /\ Whole(copy) \/ InPart(copy.node)
  /\ copy.node \notin freed => Children(copy) \cap freed = {}

LEMMA ChildrenFind ==
  ASSUME Searched, NEW tag
  PROVE  \A copy, f :
           /\ Pointing(copy) /\ Tag(copy.node) # tag
           /\ \A c \in DOMAIN kids : c > copy.node => Finds(c, tag, f[c])
           => /\ Finds(copy.node, tag, FirstFound(copy.kids, f))
              /\ FirstFound(copy.kids, f) # 0 /\ Children(copy) \cap freed = {}
                   => FirstFound(copy.kids, f) \notin freed
<1> SUFFICES ASSUME NEW copy, NEW f, Pointing(copy), Tag(copy.node) # tag,
                    \A c \in DOMAIN kids : c > copy.node => Finds(c, tag, f[c])
             PROVE  /\ Finds(copy.node, tag, FirstFound(copy.kids, f))
                    /\ FirstFound(copy.kids, f) # 0 /\ Children(copy) \cap freed = {}
                         => FirstFound(copy.kids, f) \notin freed
  OBVIOUS
<1> USE DEF Pointing
<1> DEFINE n == copy.node  r == FirstFound(copy.kids, f)
<1>1. /\ ReaderInv /\ FileInv /\ DOMAIN kids = DOMAIN parent /\ LinesOK /\ Last \in Nat
      /\ DOMAIN kids \subseteq 1..Last - 1 /\ n \in 1..Last /\ \A x \in DOMAIN kids : x \in 1..Last
  BY Numbers DEF Searched, Tree
<1>2. \A c \in DOMAIN copy.kids : /\ copy.kids[c] \in Children(copy) /\ copy.kids[c] \in DOMAIN kids
                                  /\ Owns(n, copy.kids[c]) /\ Under(n, copy.kids[c]) /\ n < copy.kids[c]
  <2> SUFFICES ASSUME NEW c \in DOMAIN copy.kids
               PROVE  /\ copy.kids[c] \in Children(copy) /\ copy.kids[c] \in DOMAIN kids
                      /\ Owns(n, copy.kids[c]) /\ Under(n, copy.kids[c]) /\ n < copy.kids[c]
    OBVIOUS
  <2>1. copy.kids[c] \in Children(copy)
    BY DEF Children
  <2>2. copy.kids[c] \in DOMAIN kids /\ Owns(n, copy.kids[c])
    BY <2>1 DEF Owned
  <2>3. Under(n, copy.kids[c])
    BY <1>1, <2>2, OwnedUnder
  <2> QED  BY <2>1, <2>2, <2>3 DEF Owns
<1>3. \A c \in DOMAIN copy.kids : Finds(copy.kids[c], tag, f[copy.kids[c]])
  BY <1>2
<1>4. ASSUME NEW m \in Tagged(tag), Within(n, m)
      PROVE  \E x \in DOMAIN copy.kids : Within(copy.kids[x], m) /\ Whole(copy)
  <2>1. m \in DOMAIN kids /\ Under(n, m) /\ ~InPart(m)
    BY <1>4 DEF Tagged, Within
  <2>2. Whole(copy)
    BY <1>1, <2>1, PartUnder DEF Searched
  <2>3. PICK c \in Mine(n) \cap DOMAIN parent : lines[c].form = "tag" /\ (c = m \/ Under(c, m))
    BY <1>1, <2>1, ThroughChild
  <2>4. c \in Children(copy)
    BY <2>2, <2>3 DEF Whole
  <2>5. PICK x \in DOMAIN copy.kids : c = copy.kids[x]
    BY <2>4 DEF Children
  <2> QED  BY <2>2, <2>3, <2>5 DEF Within
<1>5. CASE r = 0 /\ \A c \in DOMAIN copy.kids : f[copy.kids[c]] = 0
  <2>1. ASSUME NEW m \in Tagged(tag), Within(n, m) PROVE FALSE
    <3>1. PICK x \in DOMAIN copy.kids : Within(copy.kids[x], m)
      BY <1>4, <2>1
    <3> QED  BY <1>3, <1>5, <3>1 DEF Finds
  <2> QED  BY <1>5, <2>1 DEF Finds
<1>6. ASSUME NEW c \in DOMAIN copy.kids, f[copy.kids[c]] # 0, r = f[copy.kids[c]],
             \A d \in DOMAIN copy.kids : d < c => f[copy.kids[d]] = 0
      PROVE  Finds(n, tag, r) /\ (Children(copy) \cap freed = {} => r \notin freed)
  <2>1. PICK child : child = copy.kids[c]
    OBVIOUS
  <2>2. /\ child \in DOMAIN kids /\ Under(n, child) /\ child \in 1..Last /\ Owns(n, child)
        /\ r # 0 /\ r \in DOMAIN kids /\ Within(child, r) /\ r \in 1..Last
    BY <1>1, <1>2, <1>3, <1>6, <2>1 DEF Finds
  <2>3. Under(n, r)
    BY <1>1, <2>2, UnderUnder DEF Within
  <2>4. Children(copy) \cap freed = {} => r \notin freed
    BY <1>2, <1>3, <1>6, <2>1 DEF Finds
  <2>5. ASSUME NEW m \in Tagged(tag), Within(n, m) PROVE r <= m
    <3>1. PICK x \in DOMAIN copy.kids : Within(copy.kids[x], m) /\ Whole(copy)
      BY <1>4, <2>5
    <3>2. PICK other : other = copy.kids[x]
      OBVIOUS
    <3>3. /\ other \in DOMAIN kids /\ other \in 1..Last /\ Owns(n, other) /\ f[other] # 0 /\ f[other] <= m
          /\ Within(other, m) /\ m \in 1..Last
      BY <1>1, <1>2, <1>3, <2>5, <3>1, <3>2 DEF Finds, Tagged
    <3>4. ~(x < c) /\ x \in Nat /\ c \in Nat
      BY <1>6, <3>2, <3>3
    <3>5. CASE x = c
      BY <1>6, <3>2, <3>3, <3>5
    <3>6. CASE c < x
      <4>1. child < other
        BY <2>1, <3>1, <3>2, <3>6 DEF Whole
      <4>2. r < other
        BY <1>1, <2>2, <3>3, <4>1, Apart DEF Within
      <4>3. other <= m
        BY <3>3 DEF Within, Under
      <4> QED  BY <1>1, <2>2, <3>3, <4>2, <4>3
    <3> QED  BY <3>4, <3>5, <3>6
  <2> QED  BY <2>2, <2>3, <2>4, <2>5 DEF Finds, Within
<1> HIDE DEF r
<1>7. Finds(n, tag, r) /\ (r # 0 /\ Children(copy) \cap freed = {} => r \notin freed)
  <2>1. \/ r = 0 /\ \A c \in DOMAIN copy.kids : f[copy.kids[c]] = 0
        \/ \E c \in DOMAIN copy.kids : /\ f[copy.kids[c]] # 0 /\ r = f[copy.kids[c]]
                                       /\ \A d \in DOMAIN copy.kids : d < c => f[copy.kids[d]] = 0
    BY FirstFacts DEF r
  <2>2. CASE r = 0 /\ \A c \in DOMAIN copy.kids : f[copy.kids[c]] = 0
    BY <1>5, <2>2, Zenon DEF r
  <2>3. ASSUME NEW c \in DOMAIN copy.kids, f[copy.kids[c]] # 0, r = f[copy.kids[c]],
               \A d \in DOMAIN copy.kids : d < c => f[copy.kids[d]] = 0
        PROVE  Finds(n, tag, r) /\ (Children(copy) \cap freed = {} => r \notin freed)
    BY <1>6, <2>3
  <2> QED  BY <2>1, <2>2, <2>3, Zenon
<1> QED  BY <1>7 DEF r

LEMMA SearchFacts ==
  ASSUME Searched, NEW tag
  PROVE  \A f : Search(f, tag, DOMAIN kids) => \A n \in DOMAIN kids : Finds(n, tag, f[n])
<1> SUFFICES ASSUME NEW f, Search(f, tag, DOMAIN kids) PROVE \A n \in DOMAIN kids : Finds(n, tag, f[n])
  OBVIOUS
<1> DEFINE Bad == {k \in Nat : \E n \in DOMAIN kids : n = Last - k /\ ~Finds(n, tag, f[n])}
<1>1. Last \in Nat /\ DOMAIN kids \subseteq 1..Last - 1
  BY Numbers DEF Searched, Tree
<1>2. ASSUME NEW n \in DOMAIN kids, \A c \in DOMAIN kids : c > n => Finds(c, tag, f[c])
      PROVE  Finds(n, tag, f[n])
  <2>1. f[n] = IF Tag(n) = tag THEN n ELSE FirstFound(kids[n], f)
    BY SearchAt
  <2>2. CASE Tag(n) = tag
    BY <1>1, <2>1, <2>2 DEF Finds, Within, Under, Tagged
  <2>3. CASE Tag(n) # tag
    <3>1. PICK copy : copy = Copy(n)
      OBVIOUS
    <3>2. copy.node = n /\ copy.kids = kids[n]
      BY <3>1 DEF Copy
    <3>3. Pointing(copy)
      BY <3>1, <3>2 DEF Searched, Tree, UseTree, Pointing
    <3>4. Tag(copy.node) # tag /\ \A c \in DOMAIN kids : c > copy.node => Finds(c, tag, f[c])
      BY <1>2, <2>3, <3>2
    <3>5. Finds(copy.node, tag, FirstFound(copy.kids, f))
      BY <3>3, <3>4, ChildrenFind, Zenon
    <3> QED  BY <2>1, <2>3, <3>2, <3>5
  <2> QED  BY <2>2, <2>3
<1>3. Bad = {}
  <2> SUFFICES ASSUME Bad # {} PROVE FALSE
    OBVIOUS
  <2>1. PICK k \in Bad : \A x \in Bad : k <= x
    <3>1. Bad \in SUBSET Nat
      OBVIOUS
    <3> HIDE DEF Bad
    <3> QED  BY <3>1, Least
  <2>2. PICK n \in DOMAIN kids : n = Last - k /\ ~Finds(n, tag, f[n])
    BY <2>1
  <2>3. ASSUME NEW c \in DOMAIN kids, c > n, ~Finds(c, tag, f[c]) PROVE FALSE
    <3>1. Last - c \in Nat /\ c = Last - (Last - c) /\ Last - c < k
      BY <1>1, <2>1, <2>2, <2>3
    <3>2. Last - c \in Bad
      BY <2>3, <3>1
    <3> HIDE DEF Bad
    <3>3. k <= Last - c /\ k \in Nat
      BY <2>1, <3>2 DEF Bad
    <3> QED  BY <3>1, <3>3
  <2> QED  BY <1>2, <2>2, <2>3
<1>4. ASSUME NEW n \in DOMAIN kids PROVE Finds(n, tag, f[n])
  <2>1. Last - n \in Nat /\ n = Last - (Last - n)
    BY <1>1
  <2> QED  BY <1>3, <2>1
<1> QED  BY <1>4

LEMMA FindFacts ==
  ASSUME Searched, NEW tag
  PROVE  \A copy : Pointing(copy) => Finds(copy.node, tag, FindConfigurationByTag(copy, tag))
<1> SUFFICES ASSUME NEW copy, Pointing(copy)
             PROVE  Finds(copy.node, tag, FindConfigurationByTag(copy, tag))
  OBVIOUS
<1>1. PICK f : /\ Search(f, tag, DOMAIN kids)
               /\ FindConfigurationByTag(copy, tag)
                    = IF Tag(copy.node) = tag THEN copy.node ELSE FirstFound(copy.kids, f)
  <2>1. FindConfigurationByTag(copy, tag)
          = IF Tag(copy.node) = tag THEN copy.node
            ELSE FirstFound(copy.kids, CHOOSE f : Search(f, tag, DOMAIN kids))
    BY Zenon DEF FindConfigurationByTag, Search
  <2>2. \E f : Search(f, tag, DOMAIN kids)
    BY SearchExists DEF Searched
  <2> QED  BY <2>1, <2>2, Zenon
<1>2. \A n \in DOMAIN kids : Finds(n, tag, f[n])
  BY <1>1, SearchFacts, Zenon
<1>3. CASE Tag(copy.node) = tag
  <2>1. copy.node \in DOMAIN kids /\ DOMAIN kids \subseteq Nat /\ copy.node # 0
    BY Numbers DEF Pointing, Searched, Tree
  <2>2. FindConfigurationByTag(copy, tag) = copy.node
    BY <1>1, <1>3
  <2> QED  BY <2>1, <2>2 DEF Finds, Within, Under, Tagged
<1>4. CASE Tag(copy.node) # tag
  <2>1. Finds(copy.node, tag, FirstFound(copy.kids, f))
    BY <1>2, <1>4, ChildrenFind, Zenon
  <2>2. FindConfigurationByTag(copy, tag) = FirstFound(copy.kids, f)
    BY <1>1, <1>4, Zenon
  <2> QED  BY <2>1, <2>2, Zenon
<1> QED  BY <1>3, <1>4

(* Every configuration is inside the first.                                *)
LEMMA AllInside == ASSUME ReaderInv, FileInv PROVE \A m \in DOMAIN parent : Within(1, m)
<1>1. Last \in Nat /\ DOMAIN parent \subseteq 1..Last - 1 /\ Level(1) = 0
  BY Numbers DEF Level
<1>2. ASSUME NEW m \in DOMAIN parent, m # 1 PROVE Under(1, m)
  <2>1. m \in 2..Last - 1
    BY <1>1, <1>2
  <2>2. ASSUME NEW i \in 1 + 1..m PROVE Level(i) > 0
    <3>1. i \in 2..Last - 1
      BY <1>1, <2>1
    <3>2. Level(i) >= 1 /\ Level(i) \in Nat
      BY <3>1, Numbers DEF FileInv
    <3> QED  BY <3>2
  <2> QED  BY <1>1, <2>1, <2>2 DEF Under
<1> QED  BY <1>2 DEF Within

LEMMA DoneSearched == ASSUME ReaderInv, UIInv, reading = "done", robot # "over" PROVE Searched
<1>1. \A n \in DOMAIN kids : Whole(Copy(n)) \/ Emptied(Copy(n))
  BY DEF UIInv, UseTree
<1>2. \A n \in DOMAIN kids : Copy(n).node = n /\ Copy(n).kids = kids[n]
  BY DEF Copy
<1>3. Tree
  <2>1. \A n \in DOMAIN kids : Owned(Copy(n))
    BY <1>1, <1>2, OwnedCopies DEF UIInv, UseTree
  <2> QED  BY <2>1 DEF Tree, UIInv, UseTree
<1>4. ASSUME NEW n \in DOMAIN kids PROVE kids[n] \in Seq(Nat)
  <2>1. <<>> \in Seq(Nat)
    OBVIOUS
  <2> QED  BY <1>1, <1>2, <2>1, Zenon DEF Whole, Emptied
<1> QED  BY <1>3, <1>4 DEF Searched, UIInv, Progress, NoDangling
-----------------------------------------------------------------------------
(* The robot changes nothing of the file: what is written in it stays.     *)
LEMMA FileSame ==
  ASSUME UNCHANGED <<lines, stack, parent, reading>>
  PROVE  /\ FileInv => FileInv'
         /\ \A n, m : Under(n, m)' <=> Under(n, m)
         /\ \A copy : Whole(copy)' <=> Whole(copy)
         /\ \A n : Tag(n)' = Tag(n)
<1>1. Last' = Last /\ nextLine' = nextLine /\ \A i : Level(i)' = Level(i) /\ Tag(i)' = Tag(i)
  BY DEF Last, nextLine, Level, Tag
<1>2. FileInv => FileInv'
  BY <1>1 DEF FileInv
<1>3. \A n, m : Under(n, m)' <=> Under(n, m)
  BY <1>1 DEF Under
<1>4. \A n, i : Owns(n, i)' <=> Owns(n, i)
  BY <1>1 DEF Owns
<1>5. \A n : Mine(n)' = Mine(n)
  BY <1>1, <1>4 DEF Mine
<1>6. \A n, k, i : LastGiven(n, k, i)' <=> LastGiven(n, k, i)
  BY <1>1, <1>4 DEF LastGiven
<1>7. \A copy : Whole(copy)' <=> Whole(copy)
  BY <1>1, <1>5, <1>6 DEF Whole, Children
<1> QED  BY <1>1, <1>2, <1>3, <1>7

(* The destructor of a copy empties some of what lies inside its node, and *)
(* leaves no pointer to what it deletes in a node that is alive.           *)
LEMMA DestroyFacts ==
  ASSUME Searched, NEW copy, copy = NoCopy \/ Owned(copy), Destroy(copy)
  PROVE  /\ DOMAIN kids' = DOMAIN kids /\ DOMAIN data' = DOMAIN data
         /\ \A n \in DOMAIN kids : \/ kids'[n] = kids[n] /\ data'[n] = data[n]
                                   \/ /\ kids'[n] = <<>> /\ data'[n] = Nothing
                                      /\ copy # NoCopy /\ Under(copy.node, n)
         /\ freed \subseteq freed' /\ freed' \subseteq DOMAIN kids \ {1}
         /\ \A n \in DOMAIN kids \ freed' : \A c \in DOMAIN kids'[n] : kids'[n][c] \notin freed'
         /\ \A m \in freed' \ freed : \E p \in DOMAIN kids : Under(copy.node, p) /\ Owns(p, m)
<1> DEFINE Gone == CleanedUp(copy)
           Dead == Deleted(copy)
<1>1. /\ DOMAIN kids' = DOMAIN kids /\ DOMAIN data' = DOMAIN data /\ freed' = freed \cup Dead
      /\ \A n \in DOMAIN kids : kids'[n] = IF n \in Gone THEN <<>> ELSE kids[n]
      /\ \A n \in DOMAIN data : data'[n] = IF n \in Gone THEN Nothing ELSE data[n]
  BY DEF Destroy
<1>2. DOMAIN data = DOMAIN kids /\ DOMAIN kids = DOMAIN parent /\ freed \subseteq DOMAIN kids \ {1}
  BY DEF Searched, UseTree
<1>3. /\ \A m \in Gone \cup Dead : copy # NoCopy /\ m \in DOMAIN kids /\ Under(copy.node, m)
      /\ \A m \in Dead : \E p \in Gone : m \in Children(Copy(p))
  <2>1. CASE copy = NoCopy
    BY <2>1, NothingBelow
  <2>2. CASE copy # NoCopy
    BY <2>2, Destroyed DEF Searched
  <2> QED  BY <2>1, <2>2
<1> HIDE DEF Gone, Dead
<1>4. \A n \in DOMAIN kids : \A m \in Children(Copy(n)) : m \in DOMAIN kids /\ Owns(n, m)
  BY DEF Searched, Tree, Owned, Copy
<1>5. \A n \in DOMAIN kids : n \in 1..Last /\ n >= 1
  BY <1>2, Numbers DEF Searched
<1>6. \A m \in Dead : m # 1
  <2> SUFFICES ASSUME NEW m \in Dead, m = 1 PROVE FALSE
    OBVIOUS
  <2>1. copy.node \in DOMAIN kids /\ copy.node < m
    BY <1>3 DEF Owned, Under
  <2> QED  BY <1>5, <2>1
<1>7. ASSUME NEW n \in DOMAIN kids \ freed', NEW c \in DOMAIN kids'[n], kids'[n][c] \in freed' PROVE FALSE
  <2>1. n \notin Gone /\ kids'[n] = kids[n] /\ n \notin freed
    BY <1>1, <1>7
  <2>2. PICK m : m = kids'[n][c]
    OBVIOUS
  <2>3. m \in Children(Copy(n))
    BY <1>7, <2>1, <2>2 DEF Children, Copy
  <2>4. m \notin freed /\ m \in Dead
    BY <1>1, <1>7, <2>1, <2>2, <2>3 DEF Searched
  <2>5. PICK p \in Gone : m \in Children(Copy(p))
    BY <1>3, <2>4
  <2>6. p \in DOMAIN kids /\ Owns(p, m) /\ Owns(n, m) /\ m \in DOMAIN kids
    BY <1>3, <1>4, <2>3, <2>5
  <2>7. p = n
    BY <1>5, <2>6, OneOwner, Numbers DEF Searched
  <2> QED  BY <2>1, <2>5, <2>7
<1>8. ASSUME NEW m \in freed' \ freed PROVE \E p \in DOMAIN kids : Under(copy.node, p) /\ Owns(p, m)
  <2>1. PICK p \in Gone : m \in Children(Copy(p))
    BY <1>1, <1>3, <1>8
  <2> QED  BY <1>3, <1>4, <2>1
<1>9. \A n \in DOMAIN kids : \/ kids'[n] = kids[n] /\ data'[n] = data[n]
                             \/ /\ kids'[n] = <<>> /\ data'[n] = Nothing
                                /\ copy # NoCopy /\ Under(copy.node, n)
  BY <1>1, <1>2, <1>3
<1>10. freed \subseteq freed' /\ freed' \subseteq DOMAIN kids \ {1}
  BY <1>1, <1>2, <1>3, <1>6
<1> QED  BY <1>1, <1>7, <1>8, <1>9, <1>10
-----------------------------------------------------------------------------
(* FindSection takes the first of its tag that has not been emptied.       *)
LEMMA FindSectionUse == ASSUME ReaderInv, UseInv, UIInv, FindSection PROVE UIInv'
<1> DEFINE tag == Sections[found + 1]
<1>1. /\ reading = "done" /\ robot = "constructing" /\ ~Divides /\ inner = NoCopy /\ found < Len(Sections)
      /\ UNCHANGED <<lines, stack, parent, reading, kids, data, inner, parted, freed>>
  BY DEF FindSection, Constructing, UseInv, reader
<1>2. Searched
  BY <1>1, DoneSearched
<1>3. Root \in DOMAIN kids /\ 1 \notin freed
  BY <1>1 DEF UIInv, FileInv, UseTree, Root
<1>4. Pointing(Copy(Root))
  BY <1>1, <1>2, <1>3 DEF Pointing, Copy, Searched, UseTree, Tree
<1>5. PICK n : /\ n = FindConfigurationByTag(Copy(Root), tag) /\ Finds(Root, tag, n)
               /\ \/ n = 0 /\ robot' = "throwing" /\ found' = found /\ current' = current
                  \/ n # 0 /\ current' = Copy(n) /\ found' = found + 1 /\ robot' = robot
  <2>1. Finds(Root, tag, FindConfigurationByTag(Copy(Root), tag))
    <3>1. Copy(Root).node = Root
      BY DEF Copy
    <3> QED  BY <1>2, <1>4, <3>1, FindFacts
  <2> QED  BY <2>1 DEF FindSection
<1>6. /\ FileInv' /\ \A copy : Whole(copy)' <=> Whole(copy)
      /\ \A m : Under(n, m)' <=> Under(n, m)
      /\ \A m : InPart(m)' <=> InPart(m)
      /\ \A t : Tagged(t)' = Tagged(t)
  <2>1. \A m : InPart(m)' <=> InPart(m)
    BY <1>1 DEF InPart, Level
  <2>2. \A t : Tagged(t)' = Tagged(t)
    BY <1>1, <2>1 DEF Tagged, Tag
  <2> QED  BY <1>1, <2>1, <2>2, FileSame DEF UIInv
<1>7. \A m : (Copy(m))' = Copy(m)
  BY <1>1 DEF Copy
<1>8. UseTree'
  BY <1>1, <1>5, <1>6, <1>7 DEF UIInv, UseTree, Emptied
<1>9. \A m \in Tagged(tag) : n # 0 /\ n <= m
  <2>1. \A m \in Tagged(tag) : Within(Root, m)
    BY <1>2, AllInside DEF Searched, Tagged, Tree, Root
  <2> QED  BY <1>5, <2>1 DEF Finds
<1>10. found' \in 0..Len(Sections) /\ Len(Sections) \in Nat /\ found \in Nat
  BY <1>1, <1>5, SectionAssumption DEF UIInv, Progress
<1>11. CASE n = 0
  <2>1. robot' = "throwing" /\ found' = found /\ current' = current /\ inner' = inner
    BY <1>1, <1>5, <1>11
  <2>2. Copied(current)' /\ Copied(inner)'
    BY <1>1, <1>6, <2>1 DEF UIInv, Copied, Emptied, NoCopy, Nothing
  <2>3. Progress'
    BY <1>1, <2>1 DEF UIInv, Progress, NoCopy, Nothing
  <2>4. NoDangling'
    BY <1>1, <1>7, <2>1 DEF UIInv, NoDangling, Children
  <2>5. FirstOfItsTag'
    BY <1>6, <1>9, <1>11, <2>1 DEF UIInv, FirstOfItsTag, NoCopy, Nothing
  <2> QED  BY <1>6, <1>8, <2>2, <2>3, <2>4, <2>5 DEF UIInv
<1>12. CASE n # 0
  <2>1. robot' = "constructing" /\ found' = found + 1 /\ current' = Copy(n) /\ inner' = NoCopy
    BY <1>1, <1>5, <1>12
  <2>2. n \in DOMAIN kids /\ n \notin freed
    BY <1>3, <1>5, <1>12 DEF Finds, Root
  <2>3. PICK copy : copy = Copy(n)
    OBVIOUS
  <2>4. /\ copy.node = n /\ copy.data = data[n] /\ copy # NoCopy
    BY <1>12, <2>3 DEF Copy, NoCopy
  <2>5. /\ copy.data = [k \in DOMAIN copy.data |-> copy.data[k]]
        /\ Whole(copy) \/ (Emptied(copy) /\ InPart(n))
    <3>1. data[n] = [k \in DOMAIN data[n] |-> data[n][k]]
      BY <2>2 DEF UIInv, UseTree
    <3>2. Whole(copy) \/ (Emptied(copy) /\ InPart(n))
      BY <1>1, <2>2, <2>3 DEF UIInv, UseTree
    <3> QED  BY <2>4, <3>1, <3>2, Zenon
  <2>6. Copied(current)'
    BY <1>1, <1>6, <2>1, <2>2, <2>3, <2>4, <2>5, Zenon DEF Copied, Emptied, Nothing
  <2>7. Copied(inner)'
    BY <2>1 DEF Copied, NoCopy, Nothing
  <2>8. Progress'
    BY <1>1, <1>10, <2>1, <2>3, <2>4 DEF UIInv, Progress, NoCopy, Nothing
  <2>9. NoDangling'
    <3>1. Children(copy) \cap freed = {} /\ Children(NoCopy) = {}
      BY <2>2, <2>3 DEF UIInv, NoDangling, Children, NoCopy
    <3> QED  BY <1>1, <1>7, <2>1, <2>3, <3>1 DEF UIInv, NoDangling, Children
  <2>10. FirstOfItsTag'
    BY <1>6, <1>9, <2>1, <2>3, <2>4 DEF FirstOfItsTag
  <2> QED  BY <1>6, <1>8, <2>6, <2>7, <2>8, <2>9, <2>10 DEF UIInv
<1> QED  BY <1>11, <1>12

(* FindPart looks from the section on.                                     *)
LEMMA FindPartUse == ASSUME ReaderInv, UIInv, FindPart PROVE UIInv'
<1>1. /\ reading = "done" /\ robot = "constructing" /\ Divides /\ inner = NoCopy /\ found > 0
      /\ UNCHANGED <<lines, stack, parent, reading, kids, data, current, parted, freed, found>>
      /\ parted = 0 /\ freed = {} /\ current # NoCopy
  <2>1. /\ reading = "done" /\ robot = "constructing" /\ Divides /\ inner = NoCopy
        /\ UNCHANGED <<lines, stack, parent, reading, kids, data, current, parted, freed, found>>
    BY DEF FindPart, Constructing, reader
  <2>2. parted = 0 /\ found > 0
    BY <2>1, SectionAssumption DEF Divides
  <2> QED  BY <2>1, <2>2 DEF UIInv, Progress
<1>2. Searched
  BY <1>1, DoneSearched
<1>3. PICK copy : copy = current /\ copy.node \in DOMAIN kids /\ Pointing(copy)
  <2>1. PICK copy : copy = current
    OBVIOUS
  <2>2. /\ copy.node \in DOMAIN kids
        /\ Whole(copy) \/ (Emptied(copy) /\ InPart(copy.node))
    BY <1>1, <2>1 DEF UIInv, Copied
  <2>3. Owned(copy)
    BY <2>2, OwnedCopies DEF UIInv, UseTree
  <2>4. copy.kids \in Seq(Nat)
    <3>1. <<>> \in Seq(Nat)
      OBVIOUS
    <3> QED  BY <2>2, <3>1, Zenon DEF Whole, Emptied
  <2> QED  BY <1>1, <2>1, <2>2, <2>3, <2>4 DEF Pointing
<1>4. PICK n : /\ Finds(copy.node, Part, n)
               /\ \/ n = 0 /\ robot' = "throwing" /\ inner' = inner
                  \/ n # 0 /\ inner' = Copy(n) /\ robot' = robot
  <2>1. Finds(copy.node, Part, FindConfigurationByTag(copy, Part))
    BY <1>2, <1>3, FindFacts
  <2> QED  BY <1>3, <2>1 DEF FindPart
<1>5. /\ FileInv' /\ \A c : Whole(c)' <=> Whole(c)
      /\ \A m : InPart(m)' <=> InPart(m)
      /\ \A t : Tagged(t)' = Tagged(t)
  <2>1. \A m : InPart(m)' <=> InPart(m)
    BY <1>1 DEF InPart, Level
  <2>2. \A t : Tagged(t)' = Tagged(t)
    BY <1>1, <2>1 DEF Tagged, Tag
  <2> QED  BY <1>1, <2>1, <2>2, FileSame DEF UIInv
<1>6. \A m : (Copy(m))' = Copy(m)
  BY <1>1 DEF Copy
<1>7. UseTree'
  BY <1>1, <1>4, <1>5, <1>6 DEF UIInv, UseTree, Emptied
<1>8. Copied(current)'
  BY <1>1, <1>5 DEF UIInv, Copied, Emptied, NoCopy, Nothing
<1>9. FirstOfItsTag'
  <2>1. robot' = "throwing" => Divides'
    BY <1>1 DEF Divides
  <2> QED  BY <1>1, <1>4, <1>5, <2>1 DEF UIInv, FirstOfItsTag, NoCopy, Nothing
<1>10. CASE n = 0
  <2>1. robot' = "throwing" /\ inner' = inner
    BY <1>4, <1>10
  <2>2. Copied(inner)'
    BY <1>1, <2>1 DEF Copied, NoCopy, Nothing
  <2>3. Progress'
    BY <1>1, <2>1 DEF UIInv, Progress, NoCopy, Nothing
  <2>4. NoDangling'
    BY <1>1, <1>6, <2>1 DEF UIInv, NoDangling, Children
  <2> QED  BY <1>5, <1>7, <1>8, <1>9, <2>2, <2>3, <2>4 DEF UIInv
<1>11. CASE n # 0
  <2>1. robot' = "constructing" /\ inner' = Copy(n)
    BY <1>1, <1>4, <1>11
  <2>2. n \in DOMAIN kids /\ Within(copy.node, n)
    BY <1>4, <1>11 DEF Finds
  <2>3. PICK part : part = Copy(n)
    OBVIOUS
  <2>4. /\ part.node = n /\ part.data = data[n] /\ part # NoCopy
    BY <1>11, <2>3 DEF Copy, NoCopy
  <2>5. /\ part.data = [k \in DOMAIN part.data |-> part.data[k]]
        /\ Whole(part) \/ (Emptied(part) /\ InPart(n))
    <3>1. data[n] = [k \in DOMAIN data[n] |-> data[n][k]]
      BY <2>2 DEF UIInv, UseTree
    <3>2. Whole(part) \/ (Emptied(part) /\ InPart(n))
      BY <1>1, <2>2, <2>3 DEF UIInv, UseTree
    <3> QED  BY <2>4, <3>1, <3>2, Zenon
  <2>6. Copied(inner)'
    BY <1>1, <1>5, <2>1, <2>2, <2>3, <2>4, <2>5, Zenon DEF Copied, Emptied, Nothing
  <2>7. copy.node <= n
    <3>1. DOMAIN kids \subseteq Nat
      BY <1>2, Numbers DEF Searched, Tree
    <3> QED  BY <1>3, <2>2, <3>1 DEF Within, Under
  <2>8. Progress'
    BY <1>1, <1>3, <2>1, <2>3, <2>4, <2>7 DEF UIInv, Progress, NoCopy, Nothing
  <2>9. NoDangling'
    BY <1>1 DEF NoDangling
  <2> QED  BY <1>5, <1>7, <1>8, <1>9, <2>6, <2>8, <2>9 DEF UIInv
<1> QED  BY <1>10, <1>11

(* EndPart empties what lies inside the part, and the section keeps its    *)
(* own children: the part is the section itself or inside it.              *)
LEMMA EndPartUse == ASSUME ReaderInv, UseInv, UIInv, EndPart PROVE UIInv'
<1>1. /\ reading = "done" /\ robot = "constructing" /\ inner # NoCopy /\ parted = 0 /\ freed = {}
      /\ UNCHANGED <<lines, stack, parent, reading, found, current, robot>>
      /\ parted' = inner.node /\ inner' = NoCopy
  <2>1. /\ reading = "done" /\ robot = "constructing" /\ inner # NoCopy
        /\ UNCHANGED <<lines, stack, parent, reading, found, current, robot>>
        /\ parted' = inner.node /\ inner' = NoCopy
    BY DEF EndPart, Constructing
  <2>2. parted = 0
    BY <2>1 DEF UseInv, Divides
  <2> QED  BY <2>1, <2>2 DEF UIInv, Progress
<1>2. Searched
  BY <1>1, DoneSearched
<1>3. PICK part : part = inner /\ part.node \in DOMAIN kids /\ Owned(part) /\ Destroy(part)
  <2>1. PICK part : part = inner
    OBVIOUS
  <2>2. part.node \in DOMAIN kids /\ (Whole(part) \/ Emptied(part))
    BY <1>1, <2>1 DEF UIInv, Copied
  <2>3. Owned(part)
    BY <2>2, OwnedCopies DEF UIInv, UseTree
  <2>4. Destroy(part)
    BY <2>1 DEF EndPart
  <2> QED  BY <2>1, <2>2, <2>3, <2>4
<1>4. /\ DOMAIN kids' = DOMAIN kids /\ DOMAIN data' = DOMAIN data
      /\ \A n \in DOMAIN kids : \/ kids'[n] = kids[n] /\ data'[n] = data[n]
                                \/ kids'[n] = <<>> /\ data'[n] = Nothing /\ Under(part.node, n)
      /\ freed' \subseteq DOMAIN kids \ {1}
      /\ \A n \in DOMAIN kids \ freed' : \A c \in DOMAIN kids'[n] : kids'[n][c] \notin freed'
      /\ \A m \in freed' : \E p \in DOMAIN kids : Under(part.node, p) /\ Owns(p, m)
  BY <1>1, <1>2, <1>3, DestroyFacts
<1>5. /\ FileInv' /\ \A c : Whole(c)' <=> Whole(c)
      /\ \A n : Tag(n)' = Tag(n)
  BY <1>1, FileSame DEF UIInv
<1>6. /\ DOMAIN kids \subseteq 1..Last /\ DOMAIN kids = DOMAIN parent /\ DOMAIN data = DOMAIN parent
      /\ \A n \in DOMAIN kids : n \in 1..Last /\ n # 0
  BY <1>2, Numbers DEF Searched, Tree, UseTree
<1>7. \A n \in DOMAIN kids : Under(part.node, n) => InPart(n)'
  BY <1>1, <1>3, <1>6 DEF Under, InPart, Level
<1>8. UseTree'
  <2>1. \A n \in DOMAIN data' : data'[n] = [k \in DOMAIN data'[n] |-> data'[n][k]]
    <3>1. Nothing = [k \in DOMAIN Nothing |-> Nothing[k]]
      BY DEF Nothing
    <3>2. \A n \in DOMAIN data : data[n] = [k \in DOMAIN data[n] |-> data[n][k]]
      BY DEF UIInv, UseTree
    <3>3. ASSUME NEW n \in DOMAIN data PROVE data'[n] = data[n] \/ data'[n] = Nothing
      BY <1>4, <1>6
    <3> QED  BY <1>4, <3>1, <3>2, <3>3
  <2>2. ASSUME NEW n \in DOMAIN kids
        PROVE  Whole(Copy(n))' \/ (Emptied(Copy(n))' /\ InPart(n)')
    <3>1. Whole(Copy(n))
      BY <1>1 DEF UIInv, UseTree, InPart
    <3>2. CASE kids'[n] = kids[n] /\ data'[n] = data[n]
      <4>1. Copy(n)' = Copy(n)
        BY <3>2 DEF Copy
      <4> QED  BY <1>5, <3>1, <4>1
    <3>3. CASE kids'[n] = <<>> /\ data'[n] = Nothing /\ Under(part.node, n)
      <4>1. Emptied(Copy(n))'
        BY <3>3 DEF Emptied, Copy, Nothing
      <4> QED  BY <1>7, <3>3, <4>1
    <3> QED  BY <1>4, <3>2, <3>3
  <2> QED  BY <1>1, <1>4, <1>6, <2>1, <2>2 DEF UseTree
<1>9. PICK copy : copy = current
  OBVIOUS
<1>10. copy # NoCopy => /\ copy.node \in DOMAIN kids /\ Whole(copy) /\ copy.node <= part.node
                        /\ copy.data = [k \in DOMAIN copy.data |-> copy.data[k]]
  BY <1>1, <1>3, <1>9 DEF UIInv, Copied, InPart, Progress
<1>11. Copied(current)' /\ Copied(inner)'
  BY <1>1, <1>4, <1>5, <1>9, <1>10, Zenon DEF Copied, NoCopy, Nothing
<1>12. Progress'
  BY <1>1, <1>3, <1>4, <1>6 DEF UIInv, Progress, NoCopy, Nothing
<1>13. NoDangling'
  <2>1. \A n \in DOMAIN kids' \ freed' : (Children(Copy(n)) \cap freed = {})'
    BY <1>4 DEF Children, Copy
  <2>2. Children(NoCopy) = {}
    BY DEF Children, NoCopy
  <2>3. ASSUME copy # NoCopy, NEW m \in Children(copy), m \in freed' PROVE FALSE
    <3>1. PICK p \in DOMAIN kids : Under(part.node, p) /\ Owns(p, m)
      BY <1>4, <2>3
    <3>2. Owned(copy)
      BY <1>10, <2>3, OwnedCopies DEF UIInv, UseTree
    <3>3. m \in DOMAIN kids /\ Owns(copy.node, m)
      BY <2>3, <3>2 DEF Owned
    <3>4. p = copy.node
      BY <1>6, <1>10, <2>3, <3>1, <3>3, OneOwner, Numbers DEF UIInv
    <3>5. part.node < copy.node /\ copy.node <= part.node /\ part.node \in Nat /\ copy.node \in Nat
      BY <1>3, <1>6, <1>10, <2>3, <3>1, <3>4 DEF Under
    <3> QED  BY <3>5
  <2>4. Children(copy) \cap freed' = {}
    BY <2>2, <2>3
  <2>5. (Children(current) \cup Children(inner))' \cap freed' = {}
    BY <1>1, <1>9, <2>2, <2>4 DEF Children, NoCopy, Nothing
  <2> QED  BY <2>1, <2>5 DEF NoDangling
<1>14. FirstOfItsTag'
  <2>1. \A t : Tagged(t)' \subseteq Tagged(t)
    BY <1>1, <1>4, <1>5 DEF Tagged, InPart
  <2> QED  BY <1>1, <2>1 DEF UIInv, FirstOfItsTag, NoCopy, Nothing
<1> QED  BY <1>5, <1>8, <1>11, <1>12, <1>13, <1>14 DEF UIInv

(* At the end only what is alive keeps its pointers.                       *)
LEMMA EndSectionsUse == ASSUME ReaderInv, UseInv, UIInv, EndSections PROVE UIInv'
<1>1. /\ reading = "done" /\ robot # "over" /\ inner = NoCopy
      /\ UNCHANGED <<lines, stack, parent, reading, found, inner, parted>>
      /\ current' = NoCopy /\ robot' = "over"
  <2>1. /\ reading = "done" /\ UNCHANGED <<lines, stack, parent, reading, found, inner, parted>>
        /\ current' = NoCopy /\ robot' = "over"
        /\ robot = "throwing" \/ (robot = "constructing" /\ ~Divides)
    BY DEF EndSections
  <2>2. inner = NoCopy
    BY <2>1 DEF UseInv, UIInv, Progress
  <2> QED  BY <2>1, <2>2
<1>2. Searched
  BY <1>1, DoneSearched
<1>3. PICK copy : copy = current /\ (copy = NoCopy \/ Owned(copy)) /\ Destroy(copy)
  <2>1. PICK copy : copy = current
    OBVIOUS
  <2>2. copy # NoCopy => copy.node \in DOMAIN kids /\ (Whole(copy) \/ Emptied(copy))
    BY <2>1 DEF UIInv, Copied
  <2>3. copy # NoCopy => Owned(copy)
    BY <2>2, OwnedCopies DEF UIInv, UseTree
  <2>4. Destroy(copy)
    BY <2>1 DEF EndSections
  <2> QED  BY <2>1, <2>3, <2>4
<1>4. /\ DOMAIN kids' = DOMAIN kids /\ DOMAIN data' = DOMAIN data
      /\ \A n \in DOMAIN kids : \/ kids'[n] = kids[n] /\ data'[n] = data[n]
                                \/ kids'[n] = <<>> /\ data'[n] = Nothing
      /\ freed' \subseteq DOMAIN kids \ {1}
      /\ \A n \in DOMAIN kids \ freed' : \A c \in DOMAIN kids'[n] : kids'[n][c] \notin freed'
  BY <1>2, <1>3, DestroyFacts
<1>5. FileInv' /\ \A c : Whole(c)' <=> Whole(c)
  BY <1>1, FileSame DEF UIInv
<1>6. DOMAIN kids = DOMAIN parent /\ DOMAIN data = DOMAIN parent
  BY DEF UIInv, UseTree
<1>7. UseTree'
  <2>1. \A n \in DOMAIN data' : data'[n] = [k \in DOMAIN data'[n] |-> data'[n][k]]
    <3>1. Nothing = [k \in DOMAIN Nothing |-> Nothing[k]]
      BY DEF Nothing
    <3>2. \A n \in DOMAIN data : data[n] = [k \in DOMAIN data[n] |-> data[n][k]]
      BY DEF UIInv, UseTree
    <3>3. ASSUME NEW n \in DOMAIN data PROVE data'[n] = data[n] \/ data'[n] = Nothing
      BY <1>4, <1>6
    <3> QED  BY <1>4, <3>1, <3>2, <3>3
  <2>2. ASSUME NEW n \in DOMAIN kids PROVE Whole(Copy(n))' \/ Emptied(Copy(n))'
    <3>1. Whole(Copy(n)) \/ Emptied(Copy(n))
      BY <1>1 DEF UIInv, UseTree
    <3>2. CASE kids'[n] = kids[n] /\ data'[n] = data[n]
      <4>1. Copy(n)' = Copy(n)
        BY <3>2 DEF Copy
      <4> QED  BY <1>5, <3>1, <4>1 DEF Emptied, Nothing
    <3>3. CASE kids'[n] = <<>> /\ data'[n] = Nothing
      BY <3>3 DEF Emptied, Copy, Nothing
    <3> QED  BY <1>4, <3>2, <3>3
  <2> QED  BY <1>1, <1>4, <1>6, <2>1, <2>2 DEF UseTree
<1>8. Copied(current)' /\ Copied(inner)'
  BY <1>1 DEF Copied, NoCopy, Nothing
<1>9. Progress'
  BY <1>1, <1>4 DEF UIInv, Progress, NoCopy, Nothing
<1>10. NoDangling'
  <2>1. \A n \in DOMAIN kids' \ freed' : (Children(Copy(n)) \cap freed = {})'
    BY <1>4 DEF Children, Copy
  <2>2. Children(NoCopy) = {}
    BY DEF Children, NoCopy
  <2>3. (Children(current) \cup Children(inner))' \cap freed' = {}
    BY <1>1, <2>2 DEF Children, NoCopy, Nothing
  <2> QED  BY <2>1, <2>3 DEF NoDangling
<1>11. FirstOfItsTag'
  BY <1>1 DEF FirstOfItsTag, NoCopy, Nothing
<1> QED  BY <1>5, <1>7, <1>8, <1>9, <1>10, <1>11 DEF UIInv

(* It holds at first, every step keeps it, and so it holds for ever.       *)
LEMMA InitUIInv == Init => UIInv
<1> SUFFICES ASSUME Init PROVE UIInv
  OBVIOUS
<1>1. /\ DOMAIN parent = {} /\ DOMAIN kids = {} /\ DOMAIN data = {} /\ reading = "start"
      /\ found = 0 /\ current = NoCopy /\ inner = NoCopy
      /\ parted = 0 /\ freed = {} /\ robot = "constructing" /\ Last = 1
  <2>1. \E l : lines = <<l>>
    BY DEF Init, ReaderInit, FirstLine
  <2> QED  BY <2>1 DEF Init, ReaderInit, Nothing, Last
<1>2. FileInv
  BY <1>1, ReaderAssumption DEF FileInv
<1>3. UseTree /\ Copied(current) /\ Copied(inner) /\ FirstOfItsTag
  BY <1>1 DEF UseTree, Copied, FirstOfItsTag
<1>4. Progress /\ NoDangling
  BY <1>1, SectionAssumption DEF Progress, NoDangling
<1> QED  BY <1>2, <1>3, <1>4 DEF UIInv

LEMMA UseStutters == ASSUME UIInv, UNCHANGED vars PROVE UIInv'
<1>1. UNCHANGED <<lines, stack, parent, reading, kids, data>> /\ UNCHANGED use
  BY DEF vars, reader
<1>2. /\ FileInv' /\ \A c : Whole(c)' <=> Whole(c)
      /\ \A m : InPart(m)' <=> InPart(m)
      /\ \A t : Tagged(t)' = Tagged(t)
  <2>1. \A m : InPart(m)' <=> InPart(m)
    BY <1>1 DEF InPart, Level, use
  <2>2. \A t : Tagged(t)' = Tagged(t)
    BY <1>1, <2>1 DEF Tagged, Tag
  <2> QED  BY <1>1, <2>1, <2>2, FileSame DEF UIInv
<1>3. \A m : (Copy(m))' = Copy(m)
  BY <1>1 DEF Copy
<1>4. UseTree'
  BY <1>1, <1>2, <1>3 DEF UIInv, UseTree, Emptied, use
<1>5. Copied(current)' /\ Copied(inner)'
  BY <1>1, <1>2 DEF UIInv, Copied, Emptied, NoCopy, Nothing, use
<1>6. Progress' /\ NoDangling' /\ FirstOfItsTag'
  <2>1. Progress'
    BY <1>1 DEF UIInv, Progress, use, NoCopy, Nothing
  <2>2. NoDangling'
    BY <1>1, <1>3 DEF UIInv, NoDangling, Children, use
  <2>3. FirstOfItsTag'
    BY <1>1, <1>2 DEF UIInv, FirstOfItsTag, Divides, use, NoCopy, Nothing
  <2> QED  BY <2>1, <2>2, <2>3
<1> QED  BY <1>2, <1>4, <1>5, <1>6 DEF UIInv

LEMMA NextUIInv == IInv /\ IInv' /\ UIInv /\ [Next]_vars => UIInv'
<1> SUFFICES ASSUME IInv, IInv', UIInv, [Next]_vars PROVE UIInv'
  OBVIOUS
<1>1. CASE Read /\ UNCHANGED use
  BY <1>1, ReadUse
<1>2. CASE Construct
  BY <1>2, FindSectionUse, FindPartUse, EndPartUse, EndSectionsUse DEF Construct, IInv
<1>3. CASE UNCHANGED vars
  BY <1>3, UseStutters
<1> QED  BY <1>1, <1>2, <1>3 DEF Next

LEMMA UseInvariance == Spec => []UIInv
<1>1. Spec => []IInv
  BY Invariance
<1> QED  BY <1>1, InitUIInv, NextUIInv, PTL DEF Spec
-----------------------------------------------------------------------------
(* How the file ends.  Its lines are got once each; what comes after them  *)
(* is a blank line, or the last one again.  If that has been got again     *)
(* twice it lies inside a tag and is taken for the same child, or the same *)
(* value, each time.                                                       *)
Forever == /\ reading = "lines" /\ nextLine.form \in {"tag", "pair"} /\ nextLine.level > 0
           /\ nextLine.level = level + 1 \/ (nextLine.level = level /\ nextLine.form = "tag")

EndInv ==
  /\ unended \in 0..MaxLines /\ unended <= Last
  /\ unended = 0 => Last <= MaxLines \/ (Last = MaxLines + 1 /\ nextLine = Blank)
  /\ unended # 0 => Last <= unended + MaxAgain
  /\ GotAgain => Forever

(* A further line is got.                                                  *)
LEMMA EndGot ==
  ASSUME LinesOK, EndInv, GetLine, unended = 0 => Last <= MaxLines
  PROVE  /\ Last' = Last + 1
         /\ unended' \in 0..MaxLines /\ unended' <= Last'
         /\ unended' = 0 => Last' <= MaxLines \/ (Last' = MaxLines + 1 /\ nextLine' = Blank)
         /\ unended' # 0 => Last' <= unended' + MaxAgain
         /\ GotAgain' => unended' = unended /\ unended # 0 /\ nextLine' = nextLine
<1>1. Last \in Nat /\ Last >= 1 /\ Last' = Last + 1 /\ MaxLines \in Nat /\ MaxAgain \in Nat
  BY LineAdded, ReaderAssumption DEF LinesOK, Last
<1>2. ASSUME NEW l, NEW end, NextLine(l, end) PROVE nextLine' = l /\ unended' = end
  BY <1>1, <1>2 DEF NextLine, nextLine, Last, LinesOK
<1>3. CASE GetText
  <2>1. unended = 0 /\ Last < MaxLines /\ unended' \in {0, Last + 1}
    BY <1>2, <1>3 DEF GetText
  <2>2. CASE unended' = 0
    BY <1>1, <2>1, <2>2 DEF GotAgain
  <2>3. CASE unended' = Last + 1
    <3>1. unended' \in 1..MaxLines /\ unended' = Last' /\ Last + 1 <= Last + 1 + MaxAgain
      BY <1>1, <2>1, <2>3
    <3>2. ~(Last + 1 > Last + 1 + 1)
      BY <1>1
    <3>3. ~GotAgain'
      BY <1>1, <2>3, <3>2 DEF GotAgain
    <3> QED  BY <1>1, <2>3, <3>1, <3>3
  <2> QED  BY <2>1, <2>2, <2>3
<1>4. CASE GetBlank
  <2>1. unended = 0 /\ unended' = 0 /\ nextLine' = Blank
    BY <1>2, <1>4 DEF GetBlank
  <2> QED  BY <1>1, <2>1 DEF GotAgain
<1>5. CASE GetAgain
  <2>1. unended # 0 /\ Last < unended + MaxAgain /\ unended' = unended /\ nextLine' = nextLine
    BY <1>2, <1>5 DEF GetAgain
  <2>2. unended \in 0..MaxLines /\ unended <= Last
    BY DEF EndInv
  <2>3. PICK u \in 0..MaxLines : u = unended
    BY <2>2
  <2>4. u # 0 /\ u <= Last + 1 /\ Last + 1 <= u + MaxAgain
    BY <1>1, <2>1, <2>2, <2>3
  <2> QED  BY <1>1, <2>1, <2>3, <2>4
<1> QED  BY <1>3, <1>4, <1>5 DEF GetLine

(* The reader's steps.                                                     *)
LEMMA EndRead == ASSUME ReaderInv, EndInv, Read PROVE EndInv'
<1>1. /\ LinesOK /\ Last \in Nat /\ Last >= 1 /\ MaxLines \in Nat /\ MaxLines >= 1
      /\ stack \in Seq(Nat) /\ Len(stack) \in Nat
  BY ReaderAssumption DEF ReaderInv, Stages, LinesOK, Last
<1>2. CASE Begin
  <2>1. GetLine /\ Last = 1
    BY <1>2 DEF Begin, Call, ReaderInv, Stages
  <2>2. /\ Last' = 2 /\ unended' \in 0..MaxLines /\ unended' <= Last'
        /\ unended' = 0 => Last' <= MaxLines \/ (Last' = MaxLines + 1 /\ nextLine' = Blank)
        /\ unended' # 0 => Last' <= unended' + MaxAgain
    BY <1>1, <2>1, EndGot
  <2>3. ~GotAgain'
    <3>1. PICK u \in 0..MaxLines : u = unended'
      BY <2>2
    <3>2. ~(u # 0 /\ 2 > u + 1)
      <4>1. MaxLines \in Nat
        BY <1>1
      <4>2. u \in Nat
        BY <4>1
      <4>3. \A n \in Nat : ~(n # 0 /\ 2 > n + 1)
        OBVIOUS
      <4> QED  BY <4>2, <4>3
    <3> QED  BY <2>2, <3>1, <3>2 DEF GotAgain
  <2> QED  BY <2>2, <2>3 DEF EndInv
<1>3. ASSUME GetLine, reading = "lines", reading' = reading, nextLine.level = level + 1,
             nextLine.form \in {"tag", "pair"},
             level' = level + (IF nextLine.form = "tag" THEN 1 ELSE 0)
      PROVE  EndInv'
  <2>1. unended = 0 => Last <= MaxLines
    BY <1>3 DEF EndInv, Blank, Line
  <2>2. /\ unended' \in 0..MaxLines /\ unended' <= Last'
        /\ unended' = 0 => Last' <= MaxLines \/ (Last' = MaxLines + 1 /\ nextLine' = Blank)
        /\ unended' # 0 => Last' <= unended' + MaxAgain
        /\ GotAgain' => nextLine' = nextLine
    BY <1>1, <1>3, <2>1, EndGot
  <2>3. Len(stack) > 0
    BY <1>3 DEF ReaderInv, Stages
  <2>4. ASSUME GotAgain' PROVE Forever'
    <3>1. nextLine' = nextLine /\ level \in Nat
      BY <1>1, <2>2, <2>3, <2>4 DEF level
    <3> QED  BY <1>3, <3>1 DEF Forever
  <2> QED  BY <2>2, <2>4 DEF EndInv
<1>4. CASE ReadTag
  <2>1. stack' = Append(stack, Last) /\ GetLine /\ Inside("tag") /\ reading' = reading
    BY <1>4 DEF ReadTag, Call
  <2>2. level' = level + 1
    BY <1>1, <2>1 DEF level
  <2> QED  BY <1>3, <2>1, <2>2 DEF Inside
<1>5. CASE ReadPair
  <2>1. stack' = stack /\ GetLine /\ Inside("pair") /\ reading' = reading
    BY <1>5 DEF ReadPair
  <2>2. level' = level + 0
    BY <1>1, <2>1 DEF level
  <2> QED  BY <1>3, <2>1, <2>2 DEF Inside
<1>6. CASE Return
  <2>1. /\ UNCHANGED <<lines, unended>> /\ Last' = Last /\ nextLine' = nextLine /\ GotAgain' = GotAgain
        /\ reading' = IF level = 0 THEN "done" ELSE reading
    BY <1>6 DEF Return, Last, nextLine, GotAgain
  <2>2. level' = level - 1 /\ level \in Nat
    <3>1. Len(stack) > 0 /\ stack' = SubSeq(stack, 1, Len(stack) - 1)
      BY <1>6 DEF Return, ReaderInv, Stages
    <3>2. Len(stack') = Len(stack) - 1
      <4>1. PICK n \in Nat : n = Len(stack) - 1
        BY <1>1, <3>1
      <4>2. \A i \in 1..n : stack[i] \in Nat
        BY <1>1, <4>1
      <4>3. Len(SubSeq(stack, 1, n)) = n
        BY <4>1, <4>2, SubSeqProperties
      <4> QED  BY <3>1, <4>1, <4>3
    <3> QED  BY <1>1, <3>1, <3>2 DEF level
  <2>3. ASSUME GotAgain PROVE Forever'
    <3>1. Forever
      BY <2>3 DEF EndInv
    <3>2. nextLine.level <= level
      BY <1>6, <3>1 DEF Return, Outside, Forever
    <3>3. nextLine.level = level /\ nextLine.form = "tag" /\ level > 0
      BY <2>2, <3>1, <3>2 DEF Forever
    <3> QED  BY <2>1, <2>2, <3>1, <3>3 DEF Forever
  <2> QED  BY <2>1, <2>3 DEF EndInv
<1>7. CASE BeginThrows \/ Throw
  <2>1. UNCHANGED <<lines, unended, stack>>
    BY <1>7 DEF BeginThrows, Throw
  <2>2. ~GotAgain
    <3>1. level \in Int
      BY <1>1 DEF level
    <3>2. ~Forever
      BY <1>7, <3>1 DEF Forever, BeginThrows, Throw, TooDeep, Inside
    <3> QED  BY <3>2 DEF EndInv
  <2> QED  BY <2>1, <2>2 DEF EndInv, GotAgain, Last, nextLine
<1> QED  BY <1>2, <1>4, <1>5, <1>6, <1>7 DEF Read

(* The robot's use of the tree leaves the file alone.                      *)
LEMMA NextEnd == IInv /\ EndInv /\ [Next]_vars => EndInv'
<1> SUFFICES ASSUME IInv, EndInv, [Next]_vars PROVE EndInv'
  OBVIOUS
<1>1. CASE Read
  BY <1>1, EndRead DEF IInv
<1>2. CASE Construct \/ UNCHANGED vars
  <2>1. UNCHANGED <<lines, unended, stack, reading>>
    BY <1>2 DEF Construct, FindSection, FindPart, EndPart, EndSections, reader, vars
  <2> QED  BY <2>1 DEF EndInv, GotAgain, Forever, Last, nextLine, level
<1> QED  BY <1>1, <1>2 DEF Next

LEMMA InitEnd == Init => EndInv
<1> SUFFICES ASSUME Init PROVE EndInv
  OBVIOUS
<1>1. MaxLines \in Nat /\ MaxLines >= 1 /\ MaxAgain \in Nat
  BY ReaderAssumption
<1>2. unended \in {0, 1} /\ Last = 1
  BY DEF Init, ReaderInit, FirstLine, Last
<1> QED  BY <1>1, <1>2 DEF EndInv, GotAgain

LEMMA EndInvariance == Spec => []EndInv
BY Invariance, InitEnd, NextEnd, PTL DEF Spec

(* The last line of a file is got again once at most, or it lies inside a  *)
(* tag and has no newline: then it is got for ever, and ReadFromFile never *)
(* returns.                                                                *)
THEOREM EndlessReading == Spec => []EndlessOnlyInside
<1>1. EndInv => EndlessOnlyInside
  BY DEF EndInv, Forever, EndlessOnlyInside
<1> QED  BY <1>1, EndInvariance, PTL
-----------------------------------------------------------------------------
(* Pointers to tags a node owns, and values from lines it owns, have their *)
(* types.                                                                  *)
LEMMA CopyTyped ==
  ASSUME ReaderInv, FileInv, DOMAIN kids = DOMAIN parent, NEW copy,
         copy.node \in DOMAIN kids, copy.kids \in Seq(Nat),
         Children(copy) \subseteq {i \in Mine(copy.node) : lines[i].form = "tag"},
         DOMAIN copy.data \subseteq {lines[i].name : i \in {j \in Mine(copy.node) : lines[j].form = "pair"}},
         \A k \in DOMAIN copy.data : copy.data[k] \in 1..Last - 1
  PROVE  IsCopy(copy)
<1>1. Last \in Nat /\ DOMAIN parent \subseteq 1..Last - 1 /\ LinesOK
  BY Numbers
<1>2. \A c \in DOMAIN copy.kids : copy.kids[c] \in DOMAIN kids
  <2> SUFFICES ASSUME NEW c \in DOMAIN copy.kids PROVE copy.kids[c] \in DOMAIN kids
    OBVIOUS
  <2>1. copy.kids[c] \in Children(copy)
    BY DEF Children
  <2>2. PICK i \in 1..Last - 1 : i = copy.kids[c] /\ Owns(copy.node, i) /\ lines[i].form = "tag"
    BY <2>1 DEF Mine
  <2>3. i \in 2..Last - 1
    BY <1>1, <2>2 DEF Owns
  <2> QED  BY <2>2, <2>3 DEF FileInv
<1>3. copy.kids \in Seq(DOMAIN kids)
  BY <1>2
<1>4. DOMAIN copy.data \subseteq Keys
  <2> SUFFICES ASSUME NEW i \in Mine(copy.node), lines[i].form = "pair" PROVE lines[i].name \in Keys
    OBVIOUS
  <2>1. i \in 1..Last
    BY <1>1 DEF Mine
  <2>2. lines[i] \in LineType
    BY <1>1, <2>1 DEF LinesOK, Last
  <2> QED  BY <2>2 DEF LineType, Texts, Blank, Line
<1>5. \A k \in DOMAIN copy.data : copy.data[k] \in Lines
  BY <1>1 DEF Lines
<1> QED  BY <1>3, <1>4, <1>5 DEF IsCopy

LEMMA WholeTyped ==
  ASSUME ReaderInv, FileInv, DOMAIN kids = DOMAIN parent, NEW copy, copy.node \in DOMAIN kids,
         Whole(copy) \/ Emptied(copy)
  PROVE  IsCopy(copy)
<1>1. CASE Whole(copy)
  BY <1>1, CopyTyped DEF Whole
<1>2. CASE Emptied(copy)
  <2>1. <<>> \in Seq(DOMAIN kids) /\ DOMAIN Nothing = {}
    BY DEF Nothing
  <2>2. copy.kids = <<>> /\ copy.data = Nothing
    BY <1>2 DEF Emptied
  <2> QED  BY <2>1, <2>2 DEF IsCopy
<1> QED  BY <1>1, <1>2

LEMMA StackTyped ==
  ASSUME ReaderInv, FileInv PROVE stack \in Seq(Lines) /\ Len(stack) <= MaxLevel + 1
<1>1. /\ Last \in Nat /\ DOMAIN parent \subseteq 1..Last - 1 /\ LinesOK /\ MaxLevel \in Nat
      /\ stack \in Seq(Nat) /\ Len(stack) \in Nat
  BY Numbers, ReaderAssumption DEF ReaderInv, Stages
<1>2. \A k \in 1..Len(stack) : stack[k] \in DOMAIN parent /\ Level(stack[k]) = k - 1
  BY DEF ReaderInv, Path
<1>3. stack \in Seq(Lines)
  <2>1. \A k \in 1..Len(stack) : stack[k] \in Lines
    BY <1>1, <1>2 DEF Lines
  <2> QED  BY <1>1, <2>1
<1>4. ASSUME NEW i \in 1..Last PROVE Level(i) <= MaxLevel
  <2>1. lines[i] \in LineType
    BY <1>1 DEF LinesOK, Last
  <2>2. lines[i].level \in 0..MaxLevel
    BY <1>1, <2>1 DEF LineType, Texts, Blank, Line
  <2> QED  BY <1>1, <2>2 DEF Level
<1>5. CASE Len(stack) > 0
  <2>1. PICK k \in 1..Len(stack) : k = Len(stack)
    BY <1>1, <1>5
  <2>2. stack[k] \in 1..Last /\ Level(stack[k]) = k - 1
    BY <1>1, <1>2
  <2>3. k - 1 <= MaxLevel
    BY <1>4, <2>2
  <2> QED  BY <1>1, <1>3, <2>1, <2>3
<1>6. CASE Len(stack) = 0
  BY <1>1, <1>3, <1>6
<1> QED  BY <1>1, <1>5, <1>6

LEMMA InvTyped == IInv /\ UIInv /\ EndInv => TypeOK
<1> SUFFICES ASSUME IInv, UIInv, EndInv PROVE TypeOK
  OBVIOUS
<1>1. /\ ReaderInv /\ FileInv /\ DOMAIN kids = DOMAIN parent /\ DOMAIN data = DOMAIN parent
      /\ Last \in Nat /\ Last >= 1 /\ DOMAIN parent \subseteq 1..Last - 1
  BY Numbers DEF IInv, UIInv, UseTree
<1>2. /\ lines \in Seq(Texts \cup {Blank}) /\ unended \in 0..MaxLines
      /\ Last \in 1..IF unended = 0 THEN MaxLines + 1 ELSE unended + MaxAgain
  BY <1>1, ReaderAssumption DEF ReaderInv, LinesOK, LineType, EndInv
<1>3. stack \in Seq(Lines) /\ Len(stack) <= MaxLevel + 1
  BY <1>1, StackTyped
<1>4. DOMAIN parent \subseteq Lines
  BY <1>1 DEF Lines
<1>5. ASSUME NEW n \in DOMAIN kids PROVE IsCopy(Copy(n)) /\ parent[n] \in {0} \cup DOMAIN kids
  <2>1. parent[n] \in {0} \cup DOMAIN kids
    BY <1>1 DEF ReaderInv, ParentOwns
  <2>2. PICK copy : copy = Copy(n) /\ copy.node = n /\ copy.kids = kids[n] /\ copy.data = data[n]
    <3>1. Copy(n).node = n /\ Copy(n).kids = kids[n] /\ Copy(n).data = data[n]
      BY DEF Copy
    <3> QED  BY <3>1
  <2>3. CASE reading = "done"
    BY <1>1, <2>1, <2>2, <2>3, WholeTyped DEF UIInv, UseTree
  <2>4. CASE reading # "done"
    <3>1. TreeInv
      BY <2>4 DEF IInv, UseInv
    <3>2. KidsOf(n) /\ DataOf(n)
      BY <1>1, <3>1 DEF TreeInv
    <3>3. Children(copy) \subseteq {i \in Mine(copy.node) : lines[i].form = "tag"}
      BY <2>2, <3>2 DEF KidsOf, Children
    <3>4. copy.kids \in Seq(Nat)
      BY <2>2, <3>2 DEF KidsOf
    <3>5. /\ DOMAIN copy.data \subseteq {lines[i].name : i \in {j \in Mine(copy.node) : lines[j].form = "pair"}}
          /\ \A k \in DOMAIN copy.data : copy.data[k] \in 1..Last - 1
      BY <2>2, <3>2 DEF DataOf
    <3>6. IsCopy(copy)
      BY <1>1, <2>2, <3>3, <3>4, <3>5, CopyTyped
    <3> QED  BY <2>1, <2>2, <3>6
  <2> QED  BY <2>3, <2>4
<1>6. ASSUME NEW copy, Copied(copy) PROVE IsCopy(copy)
  <2>1. CASE copy = NoCopy
    <3>1. <<>> \in Seq(DOMAIN kids) /\ DOMAIN Nothing = {}
      BY DEF Nothing
    <3>2. copy.node = 0 /\ copy.kids = <<>> /\ copy.data = Nothing
      BY <2>1 DEF NoCopy
    <3> QED  BY <3>1, <3>2 DEF IsCopy
  <2>2. CASE copy # NoCopy
    BY <1>1, <1>6, <2>2, WholeTyped DEF Copied
  <2> QED  BY <2>1, <2>2
<1>7. IsCopy(current) /\ IsCopy(inner)
  BY <1>6 DEF UIInv
<1>8. /\ reading \in {"start", "lines", "done", "thrown"}
      /\ found \in 0..Len(Sections) /\ parted \in {0} \cup DOMAIN kids /\ freed \subseteq DOMAIN kids
      /\ robot \in {"constructing", "throwing", "over"}
  BY DEF UIInv, FileInv, Progress, UseTree
<1> QED  BY <1>1, <1>2, <1>3, <1>4, <1>5, <1>7, <1>8 DEF TypeOK

(* A copy that is whole has the values that the file gives.                *)
LEMMA WholeData ==
  ASSUME NEW copy, Whole(copy), copy.data = [k \in DOMAIN copy.data |-> copy.data[k]], Last \in Nat
  PROVE  copy.data = FileData(copy.node)
<1> DEFINE n == copy.node
           mine == {i \in 1..Last - 1 : lines[i].form = "pair" /\ Owns(n, i)}
           of(k) == {i \in mine : Tag(i) = k}
<1>1. FileData(n) = [k \in {Tag(i) : i \in mine} |-> Max(of(k))]
  BY Zenon DEF FileData
<1>2. DOMAIN copy.data = {Tag(i) : i \in mine}
  <2>1. mine = {j \in Mine(n) : lines[j].form = "pair"}
    BY DEF Mine
  <2>2. DOMAIN copy.data = {lines[i].name : i \in {j \in Mine(n) : lines[j].form = "pair"}}
    BY DEF Whole
  <2> QED  BY <2>1, <2>2 DEF Tag
<1>3. ASSUME NEW k \in DOMAIN copy.data PROVE copy.data[k] = Max(of(k))
  <2>1. PICK i \in 1..Last - 1 : i = copy.data[k] /\ LastGiven(n, k, i)
    BY DEF Whole
  <2>2. i \in of(k)
    BY <2>1 DEF LastGiven, Tag
  <2>3. ASSUME NEW j \in of(k) PROVE j <= i
    <3>1. j \in 1..Last - 1 /\ lines[j].form = "pair" /\ lines[j].name = k /\ Owns(n, j)
      BY DEF Tag
    <3>2. j \notin i + 1..Last - 1
      BY <2>1, <3>1 DEF LastGiven
    <3> QED  BY <2>1, <3>1, <3>2
  <2>4. of(k) \subseteq Nat
    OBVIOUS
  <2> HIDE DEF of
  <2>5. Max(of(k)) = CHOOSE x \in of(k) : \A y \in of(k) : x >= y
    BY DEF Max
  <2>6. \A x \in of(k) : (\A y \in of(k) : x >= y) <=> x = i
    BY <2>2, <2>3, <2>4
  <2>7. Max(of(k)) \in of(k) /\ \A y \in of(k) : Max(of(k)) >= y
    BY <2>2, <2>5, <2>6
  <2> QED  BY <2>1, <2>6, <2>7
<1> HIDE DEF n, mine, of
<1>4. copy.data = [k \in DOMAIN copy.data |-> Max(of(k))]
  BY <1>3, Zenon
<1>5. copy.data = FileData(n)
  BY <1>1, <1>2, <1>4, Zenon
<1> QED  BY <1>5 DEF n

(* Whatever the file, the robot's variables and the copies it holds are    *)
(* what the types say: a copy of a configuration of the tree or none, with *)
(* pointers into the tree and values from lines of the file.               *)
THEOREM ConfigurationTypeCorrect == Spec => []TypeOK
BY Invariance, UseInvariance, EndInvariance, InvTyped, PTL

(* However FindConfigurationByTag's copies are assigned and destroyed, no  *)
(* configuration that is alive, and no copy on the stack, has a pointer to *)
(* one that has been deleted.                                              *)
THEOREM NothingDangles == Spec => []NoDangling
<1>1. UIInv => NoDangling
  BY DEF UIInv
<1> QED  BY <1>1, UseInvariance, PTL

(* The section the robot holds is the first of its tag in the file, one    *)
(* it does not find is not there, and it has all the values that the file  *)
(* gives it: cleaning the part up has cost it none, unless it lies inside. *)
THEOREM SectionsAreKept == Spec => []SectionsKept
<1>1. IInv /\ UIInv => SectionsKept
  <2> SUFFICES ASSUME IInv, UIInv PROVE SectionsKept
    OBVIOUS
  <2>1. ASSUME NEW copy, Copied(copy), copy # NoCopy, ~InPart(copy.node)
        PROVE  copy.data = FileData(copy.node)
    <3>1. Last \in Nat
      BY Numbers DEF IInv, UIInv
    <3> QED  BY <2>1, <3>1, WholeData DEF Copied
  <2>2. AllItsValues
    BY <2>1 DEF AllItsValues, UIInv
  <2> QED  BY <2>2 DEF SectionsKept, UIInv
<1> QED  BY <1>1, Invariance, UseInvariance, PTL
=============================================================================
