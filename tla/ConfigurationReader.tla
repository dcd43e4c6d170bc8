------------------------ MODULE ConfigurationReader -------------------------
(***************************************************************************)
(* clank/lib/configuration/IndentedFileConfigurationReader: a file of      *)
(* indented lines becomes a tree of configurations.  Its recursion is the  *)
(* variable stack.  A configuration is named by the number of the line of  *)
(* its tag; the file is made up line by line as it is read.                *)
(*                                                                         *)
(* A line has the level GetLevel gives it and a form: tag (FormatTag takes *)
(* it: "name:", or nothing but blanks), pair (FormatKeyValuePair takes it: *)
(* "key:value;", but also "key;"), or bad (neither does).  A line of no    *)
(* characters is Blank; so is what getline leaves after a last line that   *)
(* ends in a newline.  After one that does not, getline fails before it    *)
(* touches the string: the line is there once more, and for ever.          *)
(***************************************************************************)
EXTENDS Naturals, Sequences

CONSTANTS Tags, Keys,         \* the names of tags and of keys
          NoName,             \* the empty name
          MaxLines, MaxLevel, \* bounds on the file
          MaxAgain            \* bound on how often its last line is got again

ASSUME ReaderAssumption == MaxLines \in Nat \ {0} /\ {MaxLevel, MaxAgain} \subseteq Nat

VARIABLES
  lines,   \* the lines got so far; the last is nextLine
  unended, \* the number of the line that ended the file, if it had no newline
  stack,   \* the calls of ReadConfigurationHelper under way, by their tags
  parent,  \* ParentConfiguration: of each configuration, 0 of the first
  kids,    \* ChildConfigurations: of each configuration, in order
  data,    \* ConfigurationValues: of each, the line that has a key's value
  reading  \* start, lines, done or thrown

reader == <<lines, unended, stack, parent, kids, data, reading>>

Line(l, f, n) == [level |-> l, form |-> f, name |-> n]
Blank == Line(0, "blank", NoName)
Texts == {Line(l, "tag", n) : l \in 0..MaxLevel, n \in Tags}
           \cup {Line(l, "pair", n) : l \in 0..MaxLevel, n \in Keys}
           \cup {Line(l, "bad", NoName) : l \in 0..MaxLevel}

Last     == Len(lines)
nextLine == lines[Last]
Top      == stack[Len(stack)]
level    == Len(stack) - 1

Nothing   == [k \in {} |-> 0]
(* Mutant: a key that is given twice keeps its first value.                *)
With_First(f, x, v) == [y \in DOMAIN f \cup {x} |-> IF y \in DOMAIN f THEN f[y] ELSE v]

With(f, x, v) == [y \in DOMAIN f \cup {x} |-> IF y = x THEN v ELSE f[y]]

(* The first line is taken at level 0: if it is indented, the blanks are   *)
(* part of its tag.  That shows only when it is got again.                 *)
FirstLine == \/ \E l \in Texts : lines = <<l>> /\ unended \in (IF l.level = 0 THEN {0, 1} ELSE {1})
             \/ lines = <<Blank>> /\ unended = 0

ReaderInit == /\ FirstLine
              /\ stack = <<>> /\ parent = Nothing /\ kids = Nothing /\ data = Nothing
              /\ reading = "start"

(* What getline leaves in nextLine: a further line of the file, ...        *)
NextLine(l, end) == lines' = Append(lines, l) /\ unended' = end

GetText == /\ unended = 0 /\ Last < MaxLines
           /\ \E l \in Texts : \E end \in {0, Last + 1} : NextLine(l, end)

(* ... a blank one or none, ...                                            *)
(* Mutant: at the end of the file the line is never cleared.               *)
GetBlank_Stale == unended = 0 /\ NextLine(nextLine, 0)

GetBlank == unended = 0 /\ NextLine(Blank, 0)

(* ... or the last one again, which had no newline.                        *)
GetAgain == /\ unended # 0 /\ Last < unended + MaxAgain
            /\ NextLine(nextLine, unended)

GetLine == GetText \/ GetBlank \/ GetAgain

(* A call of the helper: a new configuration for the tag on this line.     *)
Call(owner) == /\ stack' = Append(stack, Last)
               /\ parent' = With(parent, Last, owner)
               /\ kids' = With(kids, Last, <<>>)
               /\ data' = With(data, Last, Nothing)
               /\ GetLine

-----------------------------------------------------------------------------
(* ReadFromFile: an empty file has an empty first line, which is a tag.    *)
Begin == /\ reading = "start" /\ nextLine.form \in {"tag", "blank"}
         /\ Call(0) /\ reading' = "lines"

BeginThrows == /\ reading = "start"  \* there is no file, or no tag
               /\ reading' = "thrown" /\ UNCHANGED <<lines, unended, stack, parent, kids, data>>

(* Mutant: a line of the level of the tag itself is taken for one inside.  *)
Inside_Sibling(form) == /\ reading = "lines" /\ nextLine.form = form
                        /\ nextLine.level \in {level, level + 1}

(* The loop of ReadConfigurationHelper.                                    *)
Inside(form) == /\ reading = "lines" /\ nextLine.form = form
                /\ nextLine.level = level + 1

ReadTag == Inside("tag") /\ Call(Top) /\ UNCHANGED reading

(* A key given twice has the last value.                                   *)
ReadPair == /\ Inside("pair") /\ GetLine
            /\ data' = [data EXCEPT ![Top] = With(@, nextLine.name, Last)]
            /\ UNCHANGED <<stack, parent, kids, reading>>

(* The call returns, and its caller, if any, adds the child.               *)
Outside == nextLine.form = "blank" \/ nextLine.level <= level

Return == /\ reading = "lines" /\ Outside
          /\ stack' = SubSeq(stack, 1, Len(stack) - 1)
          /\ kids' = IF level = 0 THEN kids
                     ELSE [kids EXCEPT ![stack[level]] = Append(@, Top)]
          /\ reading' = IF level = 0 THEN "done" ELSE reading
          /\ UNCHANGED <<lines, unended, parent, data>>

TooDeep == nextLine.form # "blank" /\ nextLine.level > level + 1

Throw == /\ reading = "lines"
         /\ TooDeep \/ Inside("bad")
         /\ reading' = "thrown" /\ UNCHANGED <<lines, unended, stack, parent, kids, data>>

Read == Begin \/ BeginThrows \/ ReadTag \/ ReadPair \/ Return \/ Throw

ReaderSpec == ReaderInit /\ [][Read]_reader

-----------------------------------------------------------------------------
(* What the indentation says: a line belongs to the last line before it    *)
(* that is one level less, and every line in between is as deep as itself. *)
Level(i) == IF i = 1 THEN 0 ELSE lines[i].level

Owns(j, i) == /\ j < i /\ Level(i) = Level(j) + 1
              /\ \A k \in j + 1..i - 1 : Level(k) >= Level(i)

(* A configuration's parent is the tag that the indentation says, however  *)
(* the calls of the helper have returned several levels at once.           *)
ParentOwns ==
  \A i \in DOMAIN parent :
    /\ i \in 1..Last
    /\ IF i = 1 THEN parent[i] = 0
       ELSE parent[i] \in DOMAIN parent /\ Owns(parent[i], i)

(* The last line of a file is got again at most once, unless it has no     *)
(* newline and lies inside a tag: then the reading goes on for ever with   *)
(* it, and neither returns the tree nor throws.                            *)
GotAgain == unended # 0 /\ Last > unended + 1

EndlessOnlyInside ==
  GotAgain => /\ reading = "lines"
              /\ nextLine.form \in {"tag", "pair"} /\ nextLine.level > 0

(* Of a value: the line it was taken from belongs to the configuration and *)
(* no later line that does has the same key.                               *)
LastGiven(n, k, i) == /\ lines[i].form = "pair" /\ lines[i].name = k /\ Owns(n, i)
                      /\ \A j \in i + 1..Last - 1 :
                           ~(lines[j].form = "pair" /\ lines[j].name = k /\ Owns(n, j))

(* Once the file is read, each configuration has the parent, the children  *)
(* and the values that the indentation gives it, and it has them all, up   *)
(* to the line that ended the reading.                                     *)
WholeTree ==
  reading = "done" =>
    /\ ParentOwns
    /\ \A n \in DOMAIN kids :
      LET mine == {i \in 1..Last - 1 : Owns(n, i)}
      IN  /\ {i \in mine : lines[i].form = "tag"} = {kids[n][c] : c \in DOMAIN kids[n]}
          /\ \A c, d \in DOMAIN kids[n] : c < d => kids[n][c] < kids[n][d]
          /\ DOMAIN data[n] = {lines[i].name : i \in {j \in mine : lines[j].form = "pair"}}
          /\ \A k \in DOMAIN data[n] : LastGiven(n, k, data[n][k])
=============================================================================
