--------------------------- MODULE Configuration ----------------------------
(***************************************************************************)
(* clank/lib/configuration/Configuration, as TeleoperatedRobot uses it:    *)
(* ConstructFromFile reads the file and looks for one section after the    *)
(* other; one of them (the drive module's) looks for a part of its own.    *)
(* FindConfigurationByTag copies a node, pointers to children included,    *)
(* and the destructor of a copy cleans up the children it shares.          *)
(***************************************************************************)
EXTENDS ConfigurationReader, FiniteSetsExt

CONSTANTS Sections,  \* the tags looked for, in order
          Divided,   \* the place in Sections of the one that has a part
          Part       \* the tag of the part

ASSUME SectionAssumption ==
  Sections \in Seq(Tags) /\ Divided \in 1..Len(Sections) /\ Part \in Tags

VARIABLES
  found,    \* how many sections have been found
  current,  \* currentConfig: a copy of a node, or NoCopy
  inner,    \* clawControllerConfig, the same
  parted,   \* the node inner was a copy of once it is destroyed, 0 before
  freed,    \* the nodes that have been deleted
  robot     \* constructing, throwing, over

use  == <<found, current, inner, parted, freed, robot>>
vars == <<reader, use>>

NoCopy  == [node |-> 0, kids |-> <<>>, data |-> Nothing]
Copy(n) == [node |-> n, kids |-> kids[n], data |-> data[n]]
Root    == 1
Tag(n)  == lines[n].name

Init == /\ ReaderInit
        /\ found = 0 /\ current = NoCopy /\ inner = NoCopy
        /\ parted = 0 /\ freed = {} /\ robot = "constructing"

-----------------------------------------------------------------------------
(* FindConfigurationByTag: the node itself, or what the first child that   *)
(* finds anything finds; 0 if nothing is found.                            *)
FirstFound(children, Found) ==
  LET hits == {c \in DOMAIN children : Found[children[c]] # 0}
  IN  IF hits = {} THEN 0 ELSE Found[children[Min(hits)]]

FindConfigurationByTag(copy, tag) ==
  LET Found[n \in DOMAIN kids] ==
        IF Tag(n) = tag THEN n ELSE FirstFound(kids[n], Found)
  IN  IF Tag(copy.node) = tag THEN copy.node ELSE FirstFound(copy.kids, Found)

(* The nodes so many levels below a copy, by their pointers.               *)
Below(copy, depth) ==
  LET Nodes[d \in 1..depth] ==
        IF d = 1 THEN {copy.kids[c] : c \in DOMAIN copy.kids}
        ELSE UNION {{kids[n][c] : c \in DOMAIN kids[n]} : n \in Nodes[d - 1]}
  IN  Nodes[depth]

AtDepths(copy, parity) == UNION {Below(copy, d) : d \in {e \in 1..Last : e % 2 = parity}}

(* ~Configuration cleans its children up, and CleanUp deletes the children *)
(* of the child and empties it.                                            *)
CleanedUp(copy) == AtDepths(copy, 1)
Deleted(copy)   == AtDepths(copy, 0)

(* Mutant: CleanUp deletes the children but keeps the pointers.            *)
Destroy_Kept(copy) ==
  /\ data' = [n \in DOMAIN data |-> IF n \in CleanedUp(copy) THEN Nothing ELSE data[n]]
  /\ freed' = freed \cup Deleted(copy)
  /\ UNCHANGED kids

Destroy(copy) ==
  /\ kids' = [n \in DOMAIN kids |-> IF n \in CleanedUp(copy) THEN <<>> ELSE kids[n]]
  /\ data' = [n \in DOMAIN data |-> IF n \in CleanedUp(copy) THEN Nothing ELSE data[n]]
  /\ freed' = freed \cup Deleted(copy)

-----------------------------------------------------------------------------
Constructing == reading = "done" /\ robot = "constructing"
Divides      == found = Divided /\ parted = 0

(* Mutant: the assignment destroys the copy that it overwrites.            *)
FindSection_Destroys ==
  /\ Constructing /\ found < Len(Sections) /\ ~Divides
  /\ LET n == FindConfigurationByTag(Copy(Root), Sections[found + 1])
     IN  IF n = 0 THEN robot' = "throwing" /\ UNCHANGED <<kids, data, freed, found, current>>
         ELSE /\ Destroy(current) /\ found' = found + 1 /\ UNCHANGED robot
              /\ current' = [node |-> n, kids |-> kids'[n], data |-> data'[n]]
  /\ UNCHANGED <<lines, unended, stack, parent, reading, inner, parted>>

(* The copy that current held before is overwritten, not destroyed.        *)
FindSection ==
  /\ Constructing /\ found < Len(Sections) /\ ~Divides
  /\ LET n == FindConfigurationByTag(Copy(Root), Sections[found + 1])
     IN  IF n = 0 THEN robot' = "throwing" /\ UNCHANGED <<found, current>>
         ELSE current' = Copy(n) /\ found' = found + 1 /\ UNCHANGED robot
  /\ UNCHANGED <<reader, inner, parted, freed>>

(* The constructor of DifferentialDriveModule, within its section.         *)
FindPart ==
  /\ Constructing /\ Divides /\ inner = NoCopy
  /\ LET n == FindConfigurationByTag(current, Part)
     IN  IF n = 0 THEN robot' = "throwing" /\ UNCHANGED inner
         ELSE inner' = Copy(n) /\ UNCHANGED robot
  /\ UNCHANGED <<reader, found, current, parted, freed>>

EndPart ==
  /\ Constructing /\ inner # NoCopy
  /\ Destroy(inner) /\ parted' = inner.node /\ inner' = NoCopy
  /\ UNCHANGED <<lines, unended, stack, parent, reading, found, current, robot>>

(* ConstructFromFile returns or throws: currentConfig goes out of scope.   *)
EndSections ==
  /\ reading = "done"
  /\ \/ robot = "throwing"
     \/ robot = "constructing" /\ found = Len(Sections) /\ ~Divides
  /\ Destroy(current) /\ current' = NoCopy /\ robot' = "over"
  /\ UNCHANGED <<lines, unended, stack, parent, reading, found, inner, parted>>

Construct == FindSection \/ FindPart \/ EndPart \/ EndSections

Next == (Read /\ UNCHANGED use) \/ Construct

Spec == Init /\ [][Next]_vars

-----------------------------------------------------------------------------
Lines   == 1..Last
IsCopy(c) == /\ c.node \in {0} \cup DOMAIN kids /\ c.kids \in Seq(DOMAIN kids)
             /\ DOMAIN c.data \subseteq Keys /\ \A k \in DOMAIN c.data : c.data[k] \in Lines

TypeOK ==
  /\ lines \in Seq(Texts \cup {Blank}) /\ unended \in 0..MaxLines
  /\ Last \in 1..IF unended = 0 THEN MaxLines + 1 ELSE unended + MaxAgain
  /\ stack \in Seq(Lines) /\ Len(stack) <= MaxLevel + 1
  /\ DOMAIN parent \subseteq Lines /\ DOMAIN kids = DOMAIN parent /\ DOMAIN data = DOMAIN kids
  /\ \A n \in DOMAIN kids : IsCopy(Copy(n)) /\ parent[n] \in {0} \cup DOMAIN kids
  /\ reading \in {"start", "lines", "done", "thrown"}
  /\ found \in 0..Len(Sections) /\ parted \in {0} \cup DOMAIN kids
  /\ IsCopy(current) /\ IsCopy(inner) /\ freed \subseteq DOMAIN kids
  /\ robot \in {"constructing", "throwing", "over"}

(* The tree that the robot begins with is the one that the file describes. *)
TreeRead == robot = "constructing" /\ found = 0 => WholeTree

(* Nobody holds a pointer to a node that has been deleted: neither a node  *)
(* that is alive nor a copy on the stack, whose destructor would use it.   *)
Children(copy) == {copy.kids[c] : c \in DOMAIN copy.kids}

NoDangling ==
  /\ \A n \in DOMAIN kids \ freed : Children(Copy(n)) \cap freed = {}
  /\ (Children(current) \cup Children(inner)) \cap freed = {}

(* What lies inside the part has been emptied or deleted with it.          *)
InPart(n) == parted # 0 /\ n > parted /\ \A i \in parted + 1..n : Level(i) > Level(parted)

(* A section that is found is the first of that tag in the file, and one   *)
(* that is missing is not there ...                                        *)
Tagged(tag) == {n \in DOMAIN kids : Tag(n) = tag /\ ~InPart(n)}

FirstOfItsTag ==
  /\ current # NoCopy => \A n \in Tagged(Sections[found]) : current.node <= n
  /\ robot = "throwing" /\ ~Divides => Tagged(Sections[found + 1]) = {}

(* ... and it has all the values that the file gives it ...                *)
FileData(n) ==
  LET mine == {i \in 1..Last - 1 : lines[i].form = "pair" /\ Owns(n, i)}
  IN  [k \in {Tag(i) : i \in mine} |-> Max({i \in mine : Tag(i) = k})]

AllItsValues ==
  \A copy \in {current, inner} :
    copy # NoCopy /\ ~InPart(copy.node) => copy.data = FileData(copy.node)

(* ... even after the part of an earlier section has been cleaned up,      *)
(* unless it lies inside that part.                                        *)
SectionsKept == FirstOfItsTag /\ AllItsValues
=============================================================================
