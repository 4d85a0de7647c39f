---------------------------- MODULE LibrariesProofs ----------------------------
(***************************************************************************)
(* Proofs about the libraries: the file logger, the reference counts, the  *)
(* circular buffer, the two allocators, the DHCP service and the hash      *)
(* table.  Each is used by itself, so that its theorem is about its own    *)
(* specification, for any capacity, sizes, numbers of objects, bits and    *)
(* buckets.                                                                *)
(***************************************************************************)
EXTENDS FileLogger, RefCounts, CircularBuffer, Allocators, DHCP, HashTable,
        FiniteSetTheorems, WellFoundedInduction, TLAPS

-----------------------------------------------------------------------------
(* FileLogger: where the lines of the log are at each step of a prepend.   *)

Files == Seq(Nat) \cup {Absent}

FileLoggerTypes ==
    /\ file \in Files /\ temp_text \in Files
    /\ temp_file \in Seq(Nat) /\ original_file \in Seq(Nat)
    /\ input \in [command : Commands, line : Nat] /\ read \in Nat
    /\ step \in Commands \cup {"reads", "returned", "copied", "truncated", "written", "closed"}
    /\ order \in Seq(Nat) /\ disturbed \in {"no", "yes", "gap"}

\* Every line that is logged is on disk, but for the moment when only the copy has it.
NothingLost ==
    disturbed # "gap" =>
        /\ step \notin {"truncated", "written", "closed"} =>
               logged \subseteq ToSet(Lines(file)) \cup ToSet(Lines(temp_text))
        /\ step = "truncated" => logged \subseteq ToSet(temp_file) \cup ToSet(Lines(temp_text))
        /\ step = "written" => logged \subseteq ToSet(temp_text)
        /\ step = "closed" => logged \subseteq ToSet(file)

\* What the copy and the log hold while a prepend goes on.
CopyIsTheLog ==
    /\ step \in {"copied", "truncated", "written"} => temp_text \in Seq(Nat)
    /\ step = "copied" => file \in Seq(Nat) /\ temp_file = <<input.line>> \o file
    /\ step = "written" => original_file = temp_text
    /\ step = "closed" => file \in Seq(Nat)

\* Where no prepend was interrupted temp_text.txt is empty when one begins.
OrderIsKept ==
    disturbed = "no" =>
        /\ step \notin {"written", "closed"} => Lines(temp_text) = <<>>
        /\ step = "truncated" => temp_file = <<input.line>> \o order
        /\ step = "written" => original_file = <<input.line>> \o order
        /\ step \notin {"truncated", "written"} => Lines(file) = order

FileLoggerInv == FileLoggerTypes /\ NothingLost /\ CopyIsTheLog /\ OrderIsKept

\* A sequence of line numbers is not the mark of an absent file.
LEMMA LinesOfFiles ==
    /\ \A f \in Seq(Nat) : f # Absent /\ Lines(f) = f
    /\ \A f \in Files : Lines(f) \in Seq(Nat)
    /\ Lines(Absent) = <<>> /\ Absent \in Files
<1>1. ASSUME NEW f \in Seq(Nat), f = Absent PROVE FALSE
  <2>1. f[1] \in Nat  BY <1>1 DEF Absent
  <2>2. f[1] = -1  BY <1>1 DEF Absent
  <2> QED  BY <2>1, <2>2
<1> QED  BY <1>1 DEF Lines, Files

\* What two sequences hold, one after the other.
LEMMA ConcatHolds ==
    ASSUME NEW s \in Seq(Nat), NEW t \in Seq(Nat)
    PROVE  ToSet(s \o t) = ToSet(s) \cup ToSet(t)
<1>1. /\ DOMAIN (s \o t) = 1 .. Len(s) + Len(t)
      /\ \A i \in 1 .. Len(s) + Len(t) : (s \o t)[i] = IF i <= Len(s) THEN s[i] ELSE t[i - Len(s)]
  OBVIOUS
<1>2. /\ Len(s) \in Nat /\ Len(t) \in Nat
      /\ DOMAIN s = 1 .. Len(s) /\ DOMAIN t = 1 .. Len(t)
  OBVIOUS
<1>3. ASSUME NEW x \in ToSet(s \o t) PROVE x \in ToSet(s) \cup ToSet(t)
  <2>1. PICK i \in 1 .. Len(s) + Len(t) : x = (s \o t)[i]  BY <1>1, <1>3 DEF ToSet
  <2>2. CASE i <= Len(s)  BY <1>1, <1>2, <2>1, <2>2 DEF ToSet
  <2>3. CASE ~(i <= Len(s))
    <3>1. i - Len(s) \in 1 .. Len(t) /\ x = t[i - Len(s)]  BY <1>1, <1>2, <2>1, <2>3
    <3> QED  BY <1>2, <3>1 DEF ToSet
  <2> QED  BY <2>2, <2>3
<1>4. ASSUME NEW x \in ToSet(s) PROVE x \in ToSet(s \o t)
  <2>1. PICK i \in 1 .. Len(s) : x = s[i]  BY <1>2, <1>4 DEF ToSet
  <2>2. i \in 1 .. Len(s) + Len(t) /\ (s \o t)[i] = x  BY <1>1, <1>2, <2>1
  <2> QED  BY <1>1, <2>2 DEF ToSet
<1>5. ASSUME NEW x \in ToSet(t) PROVE x \in ToSet(s \o t)
  <2>1. PICK i \in 1 .. Len(t) : x = t[i]  BY <1>2, <1>5 DEF ToSet
  <2>2. i + Len(s) \in 1 .. Len(s) + Len(t) /\ (s \o t)[i + Len(s)] = x  BY <1>1, <1>2, <2>1
  <2> QED  BY <1>1, <2>2 DEF ToSet
<1> QED  BY <1>3, <1>4, <1>5

LEMMA FileLoggerBegins == FileLoggerInit => FileLoggerInv
<1>1. ToSet(<<>>) = {}  BY DEF ToSet
<1> QED  BY <1>1, LinesOfFiles DEF FileLoggerInit, FileLoggerInv, FileLoggerTypes, NothingLost, CopyIsTheLog,
                  OrderIsKept, Commands

LEMMA ActiveCmdKeeps == FileLoggerInv /\ ActiveCmd => FileLoggerInv'
<1> SUFFICES ASSUME FileLoggerInv, ActiveCmd PROVE FileLoggerInv'  OBVIOUS
<1>1. input' \in [command : Commands, line : Nat] /\ step' \in Commands /\ read' \in Nat
  BY DEF FileLoggerInv, FileLoggerTypes, ActiveCmd
<1>2. step = "reads" /\ UNCHANGED <<diskVars, pastVars>>  BY DEF ActiveCmd
<1> QED  BY <1>1, <1>2 DEF FileLoggerInv, FileLoggerTypes, NothingLost, CopyIsTheLog, OrderIsKept,
               Commands, diskVars, pastVars

LEMMA CountAndExitKeep == FileLoggerInv /\ (LogerExit \/ LogerCount) => FileLoggerInv'
<1> SUFFICES ASSUME FileLoggerInv, LogerExit \/ LogerCount PROVE FileLoggerInv'  OBVIOUS
<1>1. /\ step \in {"exit", "count"} /\ step' \in {"reads", "returned"}
      /\ UNCHANGED <<diskVars, input, read, pastVars>>
  BY DEF LogerExit, LogerCount, Fails, Succeeds
<1> QED  BY <1>1 DEF FileLoggerInv, FileLoggerTypes, NothingLost, CopyIsTheLog, OrderIsKept,
               Commands, diskVars, pastVars

LEMMA LogerRemoveKeeps == FileLoggerInv /\ LogerRemove => FileLoggerInv'
<1> SUFFICES ASSUME FileLoggerInv, LogerRemove PROVE FileLoggerInv'  OBVIOUS
<1>1. /\ step = "remove" /\ step' \in {"reads", "returned"} /\ file' = Absent /\ logged' = {} /\ order' = <<>>
      /\ UNCHANGED <<temp_text, temp_file, original_file, input, read, disturbed>>
  BY DEF LogerRemove, Fails, Succeeds
<1> QED  BY <1>1, LinesOfFiles DEF FileLoggerInv, FileLoggerTypes, NothingLost, CopyIsTheLog, OrderIsKept, Commands

LEMMA LogerAppendKeeps == FileLoggerInv /\ LogerAppend => FileLoggerInv'
<1> SUFFICES ASSUME FileLoggerInv, LogerAppend PROVE FileLoggerInv'  OBVIOUS
<1> DEFINE text == Text(input.line)
<1>1. /\ step = "append" /\ step' = "reads" /\ file' = Lines(file) \o text
      /\ logged' = logged \cup ToSet(text) /\ order' = order \o text
      /\ UNCHANGED <<temp_text, temp_file, original_file, input, read, disturbed>>
  BY DEF LogerAppend, Succeeds
<1>2. text \in Seq(Nat) /\ Lines(file) \in Seq(Nat) /\ order \in Seq(Nat)
  BY LinesOfFiles DEF FileLoggerInv, FileLoggerTypes, Text
<1> HIDE DEF text
<1>3. file' \in Seq(Nat) /\ order' \in Seq(Nat)  BY <1>1, <1>2
<1>4. Lines(file') = file' /\ file' \in Files  BY <1>3, LinesOfFiles DEF Files
<1>5. ToSet(file') = ToSet(Lines(file)) \cup ToSet(text)  BY <1>1, <1>2, ConcatHolds
<1>6. FileLoggerTypes'  BY <1>1, <1>3, <1>4 DEF FileLoggerInv, FileLoggerTypes
<1>7. NothingLost'  BY <1>1, <1>4, <1>5 DEF FileLoggerInv, NothingLost
<1>8. CopyIsTheLog' /\ OrderIsKept'  BY <1>1, <1>4 DEF FileLoggerInv, CopyIsTheLog, OrderIsKept
<1> QED  BY <1>6, <1>7, <1>8 DEF FileLoggerInv

LEMMA OpenFilesKeeps == FileLoggerInv /\ OpenFilesRAndAPlusMode => FileLoggerInv'
<1> SUFFICES ASSUME FileLoggerInv, OpenFilesRAndAPlusMode PROVE FileLoggerInv'  OBVIOUS
<1>1. /\ step = "prepend" /\ temp_text' = Lines(temp_text)
      /\ UNCHANGED <<file, original_file, input, read, logged, order, disturbed>>
  BY DEF OpenFilesRAndAPlusMode, pastVars
<1>2. \/ step' = "returned" /\ temp_file' = temp_file
      \/ file # Absent /\ step' = "copied" /\ temp_file' = <<input.line>> \o file
  BY DEF OpenFilesRAndAPlusMode, Fails
<1>3. temp_text' \in Seq(Nat) /\ temp_text' \in Files /\ Lines(temp_text') = Lines(temp_text)
  BY <1>1, LinesOfFiles DEF FileLoggerInv, FileLoggerTypes, Files
<1>4. file # Absent => file \in Seq(Nat) /\ <<input.line>> \o file \in Seq(Nat)
  BY DEF FileLoggerInv, FileLoggerTypes, Files
<1>5. FileLoggerTypes'  BY <1>1, <1>2, <1>3, <1>4 DEF FileLoggerInv, FileLoggerTypes
<1>6. NothingLost'  BY <1>1, <1>2, <1>3 DEF FileLoggerInv, NothingLost
<1>7. CopyIsTheLog' /\ OrderIsKept'  BY <1>1, <1>2, <1>3, <1>4 DEF FileLoggerInv, CopyIsTheLog, OrderIsKept
<1> QED  BY <1>5, <1>6, <1>7 DEF FileLoggerInv

LEMMA TruncateKeeps == FileLoggerInv /\ Truncate => FileLoggerInv'
<1> SUFFICES ASSUME FileLoggerInv, Truncate PROVE FileLoggerInv'  OBVIOUS
<1>1. /\ step = "copied" /\ step' = "truncated" /\ file' = <<>>
      /\ UNCHANGED <<temp_text, temp_file, original_file, input, read, logged, order, disturbed>>
  BY DEF Truncate, pastVars
<1>2. file \in Seq(Nat) /\ temp_file = <<input.line>> \o file /\ Lines(file) = file
  BY <1>1, LinesOfFiles DEF FileLoggerInv, CopyIsTheLog
<1>3. ToSet(temp_file) = ToSet(<<input.line>>) \cup ToSet(file)
  <2>1. <<input.line>> \in Seq(Nat)  BY DEF FileLoggerInv, FileLoggerTypes
  <2> QED  BY <1>2, <2>1, ConcatHolds
<1>4. file' \in Files  BY <1>1 DEF Files
<1>5. FileLoggerTypes'  BY <1>1, <1>4 DEF FileLoggerInv, FileLoggerTypes
<1>6. NothingLost'  BY <1>1, <1>2, <1>3 DEF FileLoggerInv, NothingLost
<1>7. CopyIsTheLog' /\ OrderIsKept'  BY <1>1, <1>2 DEF FileLoggerInv, CopyIsTheLog, OrderIsKept
<1> QED  BY <1>5, <1>6, <1>7 DEF FileLoggerInv

LEMMA TruncateFailsKeeps == FileLoggerInv /\ TruncateFails => FileLoggerInv'
<1> SUFFICES ASSUME FileLoggerInv, TruncateFails PROVE FileLoggerInv'  OBVIOUS
<1>1. /\ step = "copied" /\ step' = "returned"
      /\ temp_text' = temp_text \o temp_file /\ temp_file' = <<>>
      /\ disturbed' \in {"yes", "gap"} /\ (disturbed = "gap" => disturbed' = "gap")
      /\ UNCHANGED <<file, original_file, input, read, logged, order>>
  BY DEF TruncateFails, Fails
<1>2. temp_text \in Seq(Nat) /\ temp_file \in Seq(Nat) /\ Lines(temp_text) = temp_text
  BY <1>1, LinesOfFiles DEF FileLoggerInv, FileLoggerTypes, CopyIsTheLog
<1>3. temp_text' \in Seq(Nat)  BY <1>1, <1>2
<1>4. temp_text' \in Files /\ Lines(temp_text') = temp_text'  BY <1>3, LinesOfFiles DEF Files
<1>5. ToSet(temp_text') = ToSet(temp_text) \cup ToSet(temp_file)  BY <1>1, <1>2, ConcatHolds
<1>6. FileLoggerTypes'  BY <1>1, <1>3, <1>4 DEF FileLoggerInv, FileLoggerTypes
<1>7. NothingLost'  BY <1>1, <1>2, <1>4, <1>5 DEF FileLoggerInv, NothingLost
<1>8. CopyIsTheLog' /\ OrderIsKept'  BY <1>1 DEF FileLoggerInv, CopyIsTheLog, OrderIsKept
<1> QED  BY <1>6, <1>7, <1>8 DEF FileLoggerInv

LEMMA CopyFileToFileKeeps == FileLoggerInv /\ CopyFileToFile => FileLoggerInv'
<1> SUFFICES ASSUME FileLoggerInv, CopyFileToFile PROVE FileLoggerInv'  OBVIOUS
<1>1. /\ step = "truncated" /\ step' = "written"
      /\ temp_text' = temp_text \o temp_file /\ temp_file' = <<>> /\ original_file' = temp_text'
      /\ UNCHANGED <<file, input, read, logged, order, disturbed>>
  BY DEF CopyFileToFile, pastVars
<1>2. temp_text \in Seq(Nat) /\ temp_file \in Seq(Nat) /\ Lines(temp_text) = temp_text
  BY <1>1, LinesOfFiles DEF FileLoggerInv, FileLoggerTypes, CopyIsTheLog
<1>3. temp_text' \in Seq(Nat) /\ temp_text' \in Files  BY <1>1, <1>2 DEF Files
<1>4. ToSet(temp_text') = ToSet(temp_text) \cup ToSet(temp_file)  BY <1>1, <1>2, ConcatHolds
<1>5. temp_text = <<>> => temp_text' = temp_file  BY <1>1, <1>2
<1>6. FileLoggerTypes'  BY <1>1, <1>3 DEF FileLoggerInv, FileLoggerTypes
<1>7. NothingLost'  BY <1>1, <1>2, <1>4 DEF FileLoggerInv, NothingLost
<1>8. CopyIsTheLog' /\ OrderIsKept'
  BY <1>1, <1>2, <1>3, <1>5 DEF FileLoggerInv, CopyIsTheLog, OrderIsKept
<1> QED  BY <1>6, <1>7, <1>8 DEF FileLoggerInv

LEMMA CloseFilesKeeps == FileLoggerInv /\ CloseFiles => FileLoggerInv'
<1> SUFFICES ASSUME FileLoggerInv, CloseFiles PROVE FileLoggerInv'  OBVIOUS
<1>1. /\ step = "written" /\ step' = "closed" /\ file' = original_file /\ original_file' = <<>>
      /\ logged' = logged \cup ToSet(original_file) /\ order' = <<input.line>> \o order
      /\ UNCHANGED <<temp_text, temp_file, input, read, disturbed>>
  BY DEF CloseFiles
<1>2. original_file = temp_text /\ original_file \in Seq(Nat)
  BY <1>1 DEF FileLoggerInv, FileLoggerTypes, CopyIsTheLog
<1>3. file' \in Seq(Nat) /\ file' \in Files /\ Lines(file') = file'  BY <1>1, <1>2, LinesOfFiles DEF Files
<1>4. order' \in Seq(Nat)  BY <1>1 DEF FileLoggerInv, FileLoggerTypes
<1>5. FileLoggerTypes'  BY <1>1, <1>3, <1>4 DEF FileLoggerInv, FileLoggerTypes
<1>6. NothingLost'  BY <1>1, <1>2 DEF FileLoggerInv, NothingLost
<1>7. CopyIsTheLog' /\ OrderIsKept'  BY <1>1, <1>3 DEF FileLoggerInv, CopyIsTheLog, OrderIsKept
<1> QED  BY <1>5, <1>6, <1>7 DEF FileLoggerInv

LEMMA RemoveTempKeeps == FileLoggerInv /\ RemoveTemp => FileLoggerInv'
<1> SUFFICES ASSUME FileLoggerInv, RemoveTemp PROVE FileLoggerInv'  OBVIOUS
<1>1. /\ step = "closed" /\ step' = "reads" /\ temp_text' = Absent
      /\ UNCHANGED <<file, temp_file, original_file, input, read, logged, order, disturbed>>
  BY DEF RemoveTemp, Succeeds, pastVars
<1>2. file \in Seq(Nat) /\ Lines(file) = file
  BY <1>1, LinesOfFiles DEF FileLoggerInv, CopyIsTheLog
<1> QED  BY <1>1, <1>2, LinesOfFiles DEF FileLoggerInv, FileLoggerTypes, NothingLost, CopyIsTheLog, OrderIsKept

LEMMA KillKeeps == FileLoggerInv /\ Kill => FileLoggerInv'
<1> SUFFICES ASSUME FileLoggerInv, Kill PROVE FileLoggerInv'  OBVIOUS
<1>1. /\ step # "returned" /\ step' = "returned" /\ temp_file' = <<>> /\ original_file' = <<>>
      /\ UNCHANGED <<file, temp_text, input, read, logged, order>>
  BY DEF Kill
<1>2. /\ disturbed' \in {"no", "yes", "gap"} /\ (disturbed' # "gap" => disturbed # "gap" /\ step # "truncated")
      /\ disturbed' = "no" => disturbed = "no" /\ step \notin {"truncated", "written", "closed"}
  BY DEF Kill, FileLoggerInv, FileLoggerTypes
<1>3. /\ step = "written" => Lines(temp_text) = temp_text
      /\ step = "closed" => Lines(file) = file
  BY LinesOfFiles DEF FileLoggerInv, CopyIsTheLog
<1>4. FileLoggerTypes'  BY <1>1, <1>2 DEF FileLoggerInv, FileLoggerTypes
<1>5. NothingLost'  BY <1>1, <1>2, <1>3 DEF FileLoggerInv, NothingLost
<1>6. CopyIsTheLog' /\ OrderIsKept'  BY <1>1, <1>2 DEF FileLoggerInv, CopyIsTheLog, OrderIsKept
<1> QED  BY <1>4, <1>5, <1>6 DEF FileLoggerInv

LEMMA LoggerKeeps == FileLoggerInv /\ Logger => FileLoggerInv'
<1> SUFFICES ASSUME FileLoggerInv, Logger PROVE FileLoggerInv'  OBVIOUS
<1>1. /\ step = "returned" /\ step' = "reads" /\ input' = [command |-> "append", line |-> 0]
      /\ UNCHANGED <<diskVars, read, pastVars>>
  BY DEF Logger
<1> QED  BY <1>1 DEF FileLoggerInv, FileLoggerTypes, NothingLost, CopyIsTheLog, OrderIsKept,
               Commands, diskVars, pastVars

LEMMA FileLoggerInvHolds == FileLoggerSpec => []FileLoggerInv
<1>1. FileLoggerInv /\ [FileLoggerNext]_flVars => FileLoggerInv'
  <2> SUFFICES ASSUME FileLoggerInv, [FileLoggerNext]_flVars PROVE FileLoggerInv'  OBVIOUS
  <2>1. CASE UNCHANGED flVars
    BY <2>1 DEF flVars, FileLoggerInv, FileLoggerTypes, NothingLost, CopyIsTheLog, OrderIsKept
  <2>2. CASE LogerHeadAppend
    BY <2>2, OpenFilesKeeps, TruncateKeeps, TruncateFailsKeeps, CopyFileToFileKeeps, CloseFilesKeeps, RemoveTempKeeps
    DEF LogerHeadAppend
  <2> QED  BY <2>1, <2>2, ActiveCmdKeeps, CountAndExitKeep, LogerRemoveKeeps, LogerAppendKeeps, KillKeeps, LoggerKeeps
           DEF FileLoggerNext
<1> QED  BY <1>1, FileLoggerBegins, PTL DEF FileLoggerSpec

(***************************************************************************)
(* Whatever is entered and whenever the process is killed, a line that was *)
(* logged is in the log or in temp_text.txt, but for the one window, and   *)
(* the log is in order where no prepend was interrupted.                   *)
(***************************************************************************)
THEOREM LoggedLinesSurvive == FileLoggerSpec => []LogSurvives
<1>1. FileLoggerInv => LogSurvives
  <2> SUFFICES ASSUME FileLoggerInv PROVE LogSurvives  OBVIOUS
  <2>1. /\ step = "written" => Lines(temp_text) = temp_text
        /\ step = "closed" => Lines(file) = file
    BY LinesOfFiles DEF FileLoggerInv, CopyIsTheLog
  <2> QED  BY <2>1 DEF FileLoggerInv, FileLoggerTypes, NothingLost, OrderIsKept, LogSurvives, Commands
<1> QED  BY <1>1, FileLoggerInvHolds, PTL

-----------------------------------------------------------------------------
(* RefCounts: the holders of a cell, and the cell that is free.            *)

Holders(value, v) == {x \in OBJECTS : value[x] = v}

RefCountsTypes ==
    /\ m_value \in [OBJECTS -> Cells \cup {0}]
    /\ m_count \in [Cells -> Nat]
    /\ DOMAIN m_data = Cells /\ DOMAIN means = OBJECTS

CountsAreHolders(count, value) == \A v \in Cells : count[v] = Cardinality(Holders(value, v))

RefCountsInv == RefCountsTypes /\ CountsAreHolders(m_count, m_value)
                /\ \A x \in OBJECTS : Exists(x) => m_data[m_value[x]] = means[x]

LEMMA CellsAreNumbers ==
    /\ Cardinality(OBJECTS) \in Nat /\ Cells \subseteq Nat \ {0}
    /\ IsFiniteSet(Cells) /\ Cardinality(Cells) = Cardinality(OBJECTS) + 1
<1>1. Cardinality(OBJECTS) \in Nat  BY ObjectsAssumption, FS_CardinalityType
<1>2. /\ 1 \in Int /\ Cardinality(OBJECTS) + 1 \in Int
      /\ (Cardinality(OBJECTS) + 1) - 1 + 1 = Cardinality(OBJECTS) + 1 /\ ~(1 > Cardinality(OBJECTS) + 1)
  BY <1>1
<1>3. IsFiniteSet(Cells) /\ Cardinality(Cells) = Cardinality(OBJECTS) + 1  BY <1>1, <1>2, FS_Interval DEF Cells
<1> QED  BY <1>1, <1>3 DEF Cells

LEMMA HoldersAreFinite ==
    ASSUME NEW value, NEW v PROVE IsFiniteSet(Holders(value, v)) /\ Cardinality(Holders(value, v)) \in Nat
BY ObjectsAssumption, FS_Subset, FS_CardinalityType DEF Holders

\* Who holds a cell is counted, and two who hold it are two.
LEMMA HolderCounts ==
    ASSUME NEW value, NEW v, NEW x \in OBJECTS, value[x] = v
    PROVE  /\ Cardinality(Holders(value, v)) >= 1
           /\ \A y \in OBJECTS : y # x /\ value[y] = v => Cardinality(Holders(value, v)) >= 2
<1>1. ASSUME NEW S \in SUBSET Holders(value, v) PROVE Cardinality(S) <= Cardinality(Holders(value, v))
  BY HoldersAreFinite, FS_Subset
<1>2. {x} \subseteq Holders(value, v) /\ Cardinality({x}) = 1  BY FS_Singleton DEF Holders
<1>3. ASSUME NEW y \in OBJECTS, y # x, value[y] = v PROVE Cardinality(Holders(value, v)) >= 2
  <2>1. {x, y} \subseteq Holders(value, v)  BY <1>3 DEF Holders
  <2>2. Cardinality({x} \cup {y}) = 2
    <3>1. IsFiniteSet({x}) /\ y \notin {x}  BY <1>3, FS_Singleton
    <3> QED  BY <1>2, <3>1, FS_AddElement
  <2>3. {x} \cup {y} = {x, y}  OBVIOUS
  <2> QED  BY <1>1, <2>1, <2>2, <2>3, HoldersAreFinite
<1> QED  BY <1>1, <1>2, <1>3, HoldersAreFinite

\* Fewer cells are held than there are.
LEMMA ACellIsFree ==
    ASSUME m_value \in [OBJECTS -> Cells \cup {0}], CountsAreHolders(m_count, m_value)
    PROVE  /\ Free \in Cells /\ m_count[Free] = 0
           /\ \A x \in OBJECTS : m_value[x] # Free
<1> DEFINE held == {m_value[x] : x \in OBJECTS}
<1>1. IsFiniteSet(held) /\ Cardinality(held) <= Cardinality(OBJECTS)
  <2>1. m_value \in Surjection(OBJECTS, held)  BY DEF Surjection
  <2> QED  BY <2>1, ObjectsAssumption, FS_Surjection
<1>2. ~(Cells \subseteq held)
  <2>1. Cells \subseteq held => Cardinality(Cells) <= Cardinality(held)  BY <1>1, FS_Subset
  <2>2. Cardinality(held) \in Nat  BY <1>1, FS_CardinalityType
  <2> QED  BY <1>1, <2>1, <2>2, CellsAreNumbers
<1>3. PICK v \in Cells : v \notin held  BY <1>2
<1>4. Holders(m_value, v) = {}  BY <1>3 DEF Holders
<1>5. m_count[v] = 0  BY <1>4, FS_EmptySet DEF CountsAreHolders
<1>6. Free \in Cells /\ m_count[Free] = 0  BY <1>3, <1>5 DEF Free
<1>7. Cardinality(Holders(m_value, Free)) = 0  BY <1>6 DEF CountsAreHolders
<1>8. ASSUME NEW x \in OBJECTS, m_value[x] = Free PROVE FALSE
  BY <1>7, <1>8, HolderCounts, HoldersAreFinite
<1> QED  BY <1>6, <1>8

CountAfterMove(value, x, w, v) ==
    IF v = w THEN Cardinality(Holders(value, v)) + 1
    ELSE IF v = value[x] THEN Cardinality(Holders(value, v)) - 1
    ELSE Cardinality(Holders(value, v))

\* One object that goes from a cell to another leaves the one and joins the other.
LEMMA HoldersMove ==
    ASSUME NEW value \in [OBJECTS -> Cells \cup {0}], NEW x \in OBJECTS, NEW w \in Cells \cup {0}, value[x] # w,
           NEW moved, moved[x] = w, \A y \in OBJECTS \ {x} : moved[y] = value[y]
    PROVE  \A v \in Cells : Cardinality(Holders(moved, v)) = CountAfterMove(value, x, w, v)
<1> TAKE v \in Cells
<1>1. CASE v = w
  <2>1. Holders(moved, v) = Holders(value, v) \cup {x} /\ x \notin Holders(value, v)  BY <1>1 DEF Holders
  <2>2. Cardinality(Holders(moved, v)) = Cardinality(Holders(value, v)) + 1
    BY <2>1, HoldersAreFinite, FS_AddElement
  <2> QED  BY <1>1, <2>2 DEF CountAfterMove
<1>2. CASE v # w /\ v = value[x]
  <2>1. Holders(moved, v) = Holders(value, v) \ {x} /\ x \in Holders(value, v)  BY <1>2 DEF Holders
  <2>2. Cardinality(Holders(moved, v)) = Cardinality(Holders(value, v)) - 1
    <3>1. IsFiniteSet(Holders(value, v))  BY HoldersAreFinite
    <3>2. Cardinality(Holders(value, v) \ {x}) =
            IF x \in Holders(value, v) THEN Cardinality(Holders(value, v)) - 1 ELSE Cardinality(Holders(value, v))
      BY <3>1, FS_RemoveElement
    <3> QED  BY <2>1, <3>2
  <2> QED  BY <1>2, <2>2 DEF CountAfterMove
<1>3. CASE v # w /\ v # value[x]
  <2>1. Holders(moved, v) = Holders(value, v)  BY <1>3 DEF Holders
  <2> QED  BY <1>3, <2>1 DEF CountAfterMove
<1> QED  BY <1>1, <1>2, <1>3

LEMMA RefCountsBegin == RefCountsInit => RefCountsInv
<1> SUFFICES ASSUME RefCountsInit PROVE RefCountsInv  OBVIOUS
<1>1. RefCountsTypes  BY DEF RefCountsInit, RefCountsTypes
<1>2. ASSUME NEW v \in Cells PROVE m_count[v] = Cardinality(Holders(m_value, v))
  <2>1. Holders(m_value, v) = {}  BY CellsAreNumbers DEF RefCountsInit, Holders
  <2> QED  BY <2>1, FS_EmptySet DEF RefCountsInit
<1> QED  BY <1>1, <1>2 DEF RefCountsInit, RefCountsInv, CountsAreHolders, Exists

LEMMA NewKeeps ==
    ASSUME RefCountsInv, NEW x \in OBJECTS, NEW d, New(x, d) PROVE RefCountsInv'
<1>1. /\ m_value \in [OBJECTS -> Cells \cup {0}] /\ m_value[x] = 0
      /\ CountsAreHolders(m_count, m_value)
  BY DEF RefCountsInv, RefCountsTypes, New, Exists
<1>2. Free \in Cells /\ m_count[Free] = 0 /\ \A y \in OBJECTS : m_value[y] # Free  BY <1>1, ACellIsFree
<1>3. RefCountsTypes'  BY <1>2 DEF RefCountsInv, RefCountsTypes, New
<1>4. CountsAreHolders(m_count', m_value')
  <2>1. m_value' = [m_value EXCEPT ![x] = Free] /\ m_count' = [m_count EXCEPT ![Free] = 1]  BY DEF New
  <2>2. \A v \in Cells : m_count'[v] = IF v = Free THEN m_count[v] + 1 ELSE m_count[v]
    BY <1>2, <2>1 DEF RefCountsInv, RefCountsTypes
  <2>3. \A v \in Cells : v # 0  BY CellsAreNumbers
  <2>4. \A v \in Cells : Cardinality(Holders(m_value', v)) = CountAfterMove(m_value, x, Free, v)
    <3>1. m_value'[x] = Free /\ \A y \in OBJECTS \ {x} : m_value'[y] = m_value[y]  BY <1>1, <1>2, <2>1, <2>3
    <3>2. m_value[x] # Free /\ Free \in Cells \cup {0}  BY <1>1, <1>2, <2>1, <2>3
    <3> QED  BY <1>1, <3>1, <3>2, HoldersMove
  <2> QED  BY <1>1, <2>2, <2>3, <2>4 DEF CountsAreHolders, CountAfterMove
<1>5. ASSUME NEW y \in OBJECTS, Exists(y)' PROVE m_data'[m_value'[y]] = means'[y]
  BY <1>1, <1>2, <1>5 DEF New, RefCountsInv, RefCountsTypes, Exists
<1> QED  BY <1>3, <1>4, <1>5 DEF RefCountsInv

LEMMA CopyKeeps ==
    ASSUME RefCountsInv, NEW x \in OBJECTS, NEW other \in OBJECTS, Copy(x, other) PROVE RefCountsInv'
<1>1. /\ m_value \in [OBJECTS -> Cells \cup {0}] /\ m_value[x] = 0
      /\ m_value[other] \in Cells /\ m_value[other] # 0 /\ m_count[m_value[other]] \in Nat
      /\ CountsAreHolders(m_count, m_value)
  BY DEF RefCountsInv, RefCountsTypes, Copy, Exists
<1>2. RefCountsTypes'  BY <1>1 DEF RefCountsInv, RefCountsTypes, Copy, Increase
<1>3. CountsAreHolders(m_count', m_value')
  <2>1. /\ m_value' = [m_value EXCEPT ![x] = m_value[other]] /\ m_value[x] # m_value[other]
        /\ m_count' = Increase(m_count, m_value[other])
    BY <1>1 DEF Copy
  <2>2. \A v \in Cells : m_count'[v] = IF v = m_value[other] THEN m_count[v] + 1 ELSE m_count[v]
    BY <2>1 DEF RefCountsInv, RefCountsTypes, Increase
  <2>3. \A v \in Cells : v # 0  BY CellsAreNumbers
  <2>4. \A v \in Cells : Cardinality(Holders(m_value', v)) = CountAfterMove(m_value, x, m_value[other], v)
    <3>1. m_value'[x] = m_value[other] /\ \A y \in OBJECTS \ {x} : m_value'[y] = m_value[y]  BY <1>1, <2>1, <2>3
    <3>2. m_value[x] # m_value[other] /\ m_value[other] \in Cells \cup {0}  BY <1>1, <2>1, <2>3
    <3> QED  BY <1>1, <3>1, <3>2, HoldersMove
  <2> QED  BY <1>1, <2>2, <2>3, <2>4 DEF CountsAreHolders, CountAfterMove
<1>4. ASSUME NEW y \in OBJECTS, Exists(y)' PROVE m_data'[m_value'[y]] = means'[y]
  BY <1>1, <1>4 DEF Copy, RefCountsInv, RefCountsTypes, Exists
<1> QED  BY <1>2, <1>3, <1>4 DEF RefCountsInv

LEMMA DestroyKeeps ==
    ASSUME RefCountsInv, NEW x \in OBJECTS, Destroy(x) PROVE RefCountsInv'
<1>1. /\ m_value \in [OBJECTS -> Cells \cup {0}] /\ m_value[x] \in Cells /\ m_value[x] # 0
      /\ CountsAreHolders(m_count, m_value)
  BY DEF RefCountsInv, RefCountsTypes, Destroy, Exists
<1>2. m_count[m_value[x]] >= 1 /\ m_count[m_value[x]] \in Nat
  BY <1>1, HolderCounts DEF CountsAreHolders, RefCountsInv, RefCountsTypes
<1>3. RefCountsTypes'  BY <1>1, <1>2 DEF RefCountsInv, RefCountsTypes, Destroy, Decrease, Freed
<1>4. CountsAreHolders(m_count', m_value')
  <2>1. m_value' = [m_value EXCEPT ![x] = 0] /\ m_count' = Decrease(m_count, m_value[x])  BY DEF Destroy
  <2>2. \A v \in Cells : m_count'[v] = IF v = m_value[x] THEN m_count[v] - 1 ELSE m_count[v]
    BY <2>1 DEF RefCountsInv, RefCountsTypes, Decrease
  <2>3. \A v \in Cells : v # 0  BY CellsAreNumbers
  <2>4. \A v \in Cells : Cardinality(Holders(m_value', v)) = CountAfterMove(m_value, x, 0, v)
    <3>1. m_value'[x] = 0 /\ \A y \in OBJECTS \ {x} : m_value'[y] = m_value[y]  BY <1>1, <2>1, <2>3
    <3>2. m_value[x] # 0 /\ 0 \in Cells \cup {0}  BY <1>1, <2>1, <2>3
    <3> QED  BY <1>1, <3>1, <3>2, HoldersMove
  <2> QED  BY <1>1, <2>2, <2>3, <2>4 DEF CountsAreHolders, CountAfterMove
<1>5. ASSUME NEW y \in OBJECTS, Exists(y)' PROVE m_data'[m_value'[y]] = means'[y]
  <2>1. m_value'[y] = m_value[y] /\ y # x /\ m_value[y] \in Cells /\ Exists(y) /\ means'[y] = means[y]
    BY <1>1, <1>5 DEF Destroy, Exists, RefCountsInv, RefCountsTypes
  <2>2. m_count'[m_value[y]] # 0
    BY <1>4, <2>1, HolderCounts, HoldersAreFinite DEF CountsAreHolders
  <2> QED  BY <2>1, <2>2 DEF Destroy, Freed, RefCountsInv
<1> QED  BY <1>3, <1>4, <1>5 DEF RefCountsInv

LEMMA AssignKeeps ==
    ASSUME RefCountsInv, NEW x \in OBJECTS, NEW other \in OBJECTS, Assign(x, other) PROVE RefCountsInv'
<1> DEFINE old == m_value[x]
           new == m_value[other]
<1>1. /\ m_value \in [OBJECTS -> Cells \cup {0}] /\ old \in Cells /\ new \in Cells
      /\ CountsAreHolders(m_count, m_value) /\ m_count \in [Cells -> Nat]
      /\ DOMAIN m_data = Cells /\ DOMAIN means = OBJECTS
      /\ \A y \in OBJECTS : Exists(y) => m_data[m_value[y]] = means[y]
  BY DEF RefCountsInv, RefCountsTypes, Assign, Exists
<1>2. m_value' = [m_value EXCEPT ![x] = new] /\ means' = [means EXCEPT ![x] = means[other]]  BY DEF Assign
<1>3. m_count[old] >= 1 /\ m_count[new] >= 1  BY <1>1, HolderCounts DEF CountsAreHolders
<1>4. \A v \in Cells : m_count'[v] = IF old = new THEN m_count[v] ELSE IF v = new THEN m_count[v] + 1
                                     ELSE IF v = old THEN m_count[v] - 1 ELSE m_count[v]
  BY <1>1 DEF Assign, Increase, Decrease
<1>5. m_count' \in [Cells -> Nat]
  <2>1. DOMAIN m_count' = Cells /\ m_count' = [v \in Cells |-> m_count'[v]]
    BY <1>1 DEF Assign, Increase, Decrease
  <2>2. \A v \in Cells : m_count'[v] \in Nat  BY <1>1, <1>3, <1>4
  <2> QED  BY <2>1, <2>2
<1>6. CountsAreHolders(m_count', m_value')
  <2>1. CASE old = new
    <3>1. m_value' = m_value  BY <1>1, <1>2, <2>1
    <3> QED  BY <1>1, <1>4, <2>1, <3>1 DEF CountsAreHolders
  <2>2. CASE old # new
    <3>1. \A v \in Cells : Cardinality(Holders(m_value', v)) = CountAfterMove(m_value, x, new, v)
      <4>1. m_value'[x] = m_value[other] /\ \A y \in OBJECTS \ {x} : m_value'[y] = m_value[y]  BY <1>1, <1>2, <2>2
      <4>2. m_value[x] # m_value[other] /\ m_value[other] \in Cells \cup {0}  BY <1>1, <1>2, <2>2
      <4> QED  BY <1>1, <4>1, <4>2, HoldersMove
    <3> QED  BY <1>1, <1>4, <2>2, <3>1 DEF CountsAreHolders, CountAfterMove
  <2> QED  BY <2>1, <2>2
<1>7. \A y \in OBJECTS : m_value'[y] # 0 => m_count'[m_value'[y]] # 0
  <2> SUFFICES ASSUME NEW y \in OBJECTS, m_value'[y] # 0 PROVE m_count'[m_value'[y]] # 0  OBVIOUS
  <2>1. m_value'[y] \in Cells  BY <1>1, <1>2
  <2>2. Cardinality(Holders(m_value', m_value'[y])) >= 1  BY HolderCounts
  <2> QED  BY <1>6, <2>1, <2>2, HoldersAreFinite DEF CountsAreHolders
\* No cell that is held has been freed on the way.
<1>8. \A y \in OBJECTS : m_value'[y] \in Cells => m_data'[m_value'[y]] = m_data[m_value'[y]]
  <2>1. CASE class = "RCString"
    <3> DEFINE released == IF x = other THEN m_count ELSE Decrease(m_count, old)
    <3>1. m_data' = [v \in Cells |-> IF released[v] = 0 THEN <<>> ELSE m_data[v]]
      BY <2>1 DEF Assign, Freed
    <3>2. ASSUME NEW y \in OBJECTS, m_value'[y] \in Cells, released[m_value'[y]] = 0 PROVE FALSE
      <4>1. y # x => m_value'[y] = m_value[y]  BY <1>1, <1>2
      <4>2. m_value'[x] = new  BY <1>1, <1>2
      <4>3. CASE x = other
        BY <1>3, <3>2, <4>1, <4>2, <4>3, <1>1, HolderCounts, HoldersAreFinite DEF CountsAreHolders
      <4>4. CASE x # other
        <5>1. PICK z \in OBJECTS : z # x /\ m_value[z] = m_value'[y]  BY <4>1, <4>2, <4>4
        <5>2. m_count[m_value[z]] >= 1 /\ (m_value[z] = old => m_count[m_value[z]] >= 2)
          BY <1>1, <3>2, <5>1, HolderCounts DEF CountsAreHolders
        <5> QED  BY <1>1, <3>2, <4>4, <5>1, <5>2 DEF Decrease
      <4> QED  BY <4>3, <4>4
    <3> QED  BY <3>1, <3>2
  <2>2. CASE class # "RCString"
    <3>1. m_data' = [v \in Cells |-> IF m_count'[v] = 0 THEN <<>> ELSE m_data[v]]
      BY <2>2 DEF Assign, Freed
    <3> QED  BY <1>7, <3>1, CellsAreNumbers
  <2> QED  BY <2>1, <2>2
<1>9. DOMAIN m_data' = Cells  BY DEF Assign, Freed
<1>10. RefCountsTypes'  BY <1>1, <1>2, <1>5, <1>9 DEF RefCountsTypes
<1>11. ASSUME NEW y \in OBJECTS, Exists(y)' PROVE m_data'[m_value'[y]] = means'[y]
  <2>1. m_value'[y] \in Cells  BY <1>10, <1>11 DEF Exists, RefCountsTypes
  <2>2. m_data'[m_value'[y]] = m_data[m_value'[y]]  BY <1>8, <2>1
  <2> QED  BY <1>1, <1>2, <2>1, <2>2, CellsAreNumbers DEF Exists
<1> QED  BY <1>6, <1>10, <1>11 DEF RefCountsInv

\* An object lets go of its cell for a free one: of assignment of a text, and of a write.
MovesToFree(x) == /\ m_value' = [m_value EXCEPT ![x] = Free]
                  /\ m_count' = [Decrease(m_count, m_value[x]) EXCEPT ![Free] = 1]

LEMMA FreshCellCounts ==
    ASSUME RefCountsInv, NEW x \in OBJECTS, Exists(x), MovesToFree(x)
    PROVE  /\ Free \in Cells /\ \A y \in OBJECTS : m_value[y] # Free
           /\ m_value' \in [OBJECTS -> Cells \cup {0}] /\ m_count' \in [Cells -> Nat]
           /\ CountsAreHolders(m_count', m_value')
<1>1. /\ m_value \in [OBJECTS -> Cells \cup {0}] /\ m_value[x] \in Cells
      /\ CountsAreHolders(m_count, m_value) /\ m_count \in [Cells -> Nat]
  BY DEF RefCountsInv, RefCountsTypes, Exists
<1>2. Free \in Cells /\ m_count[Free] = 0 /\ \A y \in OBJECTS : m_value[y] # Free  BY <1>1, ACellIsFree
<1>3. m_count[m_value[x]] >= 1  BY <1>1, HolderCounts DEF CountsAreHolders
<1>4. \A v \in Cells : m_count'[v] = IF v = Free THEN m_count[v] + 1
                                     ELSE IF v = m_value[x] THEN m_count[v] - 1 ELSE m_count[v]
  BY <1>1, <1>2 DEF Decrease, MovesToFree
<1>5. m_count' \in [Cells -> Nat]
  <2>1. m_count' = [v \in Cells |-> m_count'[v]]  BY <1>1 DEF Decrease, MovesToFree
  <2>2. \A v \in Cells : m_count'[v] \in Nat  BY <1>1, <1>3, <1>4
  <2> QED  BY <2>1, <2>2
<1>6. m_value' \in [OBJECTS -> Cells \cup {0}]  BY <1>1, <1>2 DEF MovesToFree
<1>7. CountsAreHolders(m_count', m_value')
  <2>1. m_value[x] # Free /\ Free \in Cells \cup {0}  BY <1>2
  <2>2. m_value'[x] = Free /\ \A y \in OBJECTS \ {x} : m_value'[y] = m_value[y]  BY <1>1 DEF MovesToFree
  <2>3. \A v \in Cells : Cardinality(Holders(m_value', v)) = CountAfterMove(m_value, x, Free, v)
    BY <1>1, <2>1, <2>2, HoldersMove
  <2> QED  BY <1>1, <1>4, <2>3 DEF CountsAreHolders, CountAfterMove
<1> QED  BY <1>2, <1>5, <1>6, <1>7

LEMMA AssignTextKeeps ==
    ASSUME RefCountsInv, NEW x \in OBJECTS, NEW text, AssignText(x, text) PROVE RefCountsInv'
<1>1. /\ Free \in Cells /\ \A y \in OBJECTS : m_value[y] # Free
      /\ m_value' \in [OBJECTS -> Cells \cup {0}] /\ m_count' \in [Cells -> Nat]
      /\ CountsAreHolders(m_count', m_value')
  BY FreshCellCounts DEF AssignText, MovesToFree
<1>2. /\ m_data' = [Freed(m_data, Decrease(m_count, m_value[x])) EXCEPT ![Free] = text]
      /\ means' = [means EXCEPT ![x] = text] /\ m_value' = [m_value EXCEPT ![x] = Free]
      /\ m_count' = [Decrease(m_count, m_value[x]) EXCEPT ![Free] = 1]
  BY DEF AssignText
<1>3. DOMAIN m_data' = Cells /\ DOMAIN means' = OBJECTS  BY <1>2 DEF Freed, RefCountsInv, RefCountsTypes
<1>4. ASSUME NEW y \in OBJECTS, Exists(y)' PROVE m_data'[m_value'[y]] = means'[y]
  <2>1. CASE y = x  BY <1>1, <1>2, <2>1 DEF Freed, RefCountsInv, RefCountsTypes
  <2>2. CASE y # x
    <3>1. m_value'[y] = m_value[y] /\ m_value[y] \in Cells /\ m_value[y] # Free /\ Exists(y) /\ means'[y] = means[y]
      BY <1>1, <1>2, <1>4, <2>2 DEF Exists, RefCountsInv, RefCountsTypes
    <3>2. m_count'[m_value[y]] # 0
      BY <1>1, <3>1, HolderCounts, HoldersAreFinite DEF CountsAreHolders
    <3>3. Decrease(m_count, m_value[x])[m_value[y]] # 0
      BY <1>2, <3>1, <3>2 DEF RefCountsInv, RefCountsTypes, Decrease
    <3> QED  BY <1>1, <1>2, <3>1, <3>3 DEF Freed, RefCountsInv
  <2> QED  BY <2>1, <2>2
<1> QED  BY <1>1, <1>3, <1>4 DEF RefCountsInv, RefCountsTypes

LEMMA WriteKeeps ==
    ASSUME RefCountsInv, NEW x \in OBJECTS, NEW i, NEW c, Write(x, i, c) PROVE RefCountsInv'
<1>1. /\ Exists(x) /\ means' = [means EXCEPT ![x] = [means[x] EXCEPT ![i] = c]]
      /\ m_value[x] \in Cells /\ m_data[m_value[x]] = means[x] /\ DOMAIN means' = OBJECTS
  BY DEF Write, Exists, RefCountsInv, RefCountsTypes
<1>2. CASE m_count[m_value[x]] > 1
  <2>1. /\ m_value' = [m_value EXCEPT ![x] = Free]
        /\ m_count' = [Decrease(m_count, m_value[x]) EXCEPT ![Free] = 1]
        /\ m_data' = [m_data EXCEPT ![Free] = [m_data[m_value[x]] EXCEPT ![i] = c]]
    BY <1>2 DEF Write
  <2>2. /\ Free \in Cells /\ \A y \in OBJECTS : m_value[y] # Free
        /\ m_value' \in [OBJECTS -> Cells \cup {0}] /\ m_count' \in [Cells -> Nat]
        /\ CountsAreHolders(m_count', m_value')
    BY <1>1, <2>1, FreshCellCounts DEF MovesToFree
  <2>3. DOMAIN m_data' = Cells  BY <2>1 DEF RefCountsInv, RefCountsTypes
  <2>4. ASSUME NEW y \in OBJECTS, Exists(y)' PROVE m_data'[m_value'[y]] = means'[y]
    BY <1>1, <2>1, <2>2, <2>4 DEF RefCountsInv, RefCountsTypes, Exists
  <2> QED  BY <1>1, <2>2, <2>3, <2>4 DEF RefCountsInv, RefCountsTypes
<1>3. CASE ~(m_count[m_value[x]] > 1)
  <2>1. /\ m_data' = [m_data EXCEPT ![m_value[x]] = [m_data[m_value[x]] EXCEPT ![i] = c]]
        /\ m_value' = m_value /\ m_count' = m_count
    BY <1>3 DEF Write
  <2>2. \A y \in OBJECTS : y # x => m_value[y] # m_value[x]
    BY <1>1, <1>3, HolderCounts, HoldersAreFinite DEF RefCountsInv, CountsAreHolders
  <2>3. RefCountsTypes'  BY <1>1, <2>1 DEF RefCountsInv, RefCountsTypes
  <2>4. ASSUME NEW y \in OBJECTS, Exists(y)' PROVE m_data'[m_value'[y]] = means'[y]
    BY <1>1, <2>1, <2>2, <2>4 DEF RefCountsInv, RefCountsTypes, Exists
  <2> QED  BY <2>1, <2>3, <2>4 DEF RefCountsInv
<1> QED  BY <1>2, <1>3

(***************************************************************************)
(* However many objects there are and whatever is done to them, each count *)
(* is the number of its holders, and none sees a change of another.        *)
(***************************************************************************)
THEOREM SharingStaysUnseen == RefCountsSpec => []SharingIsUnseen
<1>1. RefCountsInv /\ [RefCountsNext]_rcVars => RefCountsInv'
  <2> SUFFICES ASSUME RefCountsInv, [RefCountsNext]_rcVars PROVE RefCountsInv'  OBVIOUS
  <2>1. CASE UNCHANGED rcVars
    BY <2>1 DEF rcVars, RefCountsInv, RefCountsTypes, CountsAreHolders, Exists
  <2> QED  BY <2>1, NewKeeps, CopyKeeps, DestroyKeeps, AssignKeeps, AssignTextKeeps, WriteKeeps DEF RefCountsNext
<1>2. RefCountsInv => SharingIsUnseen
  BY DEF RefCountsInv, CountsAreHolders, Holders, SharingIsUnseen
<1> QED  BY <1>1, <1>2, RefCountsBegin, PTL DEF RefCountsSpec

-----------------------------------------------------------------------------
(* CircularBuffer: indexes that wrap, and the places they stand for.       *)

LEMMA MinOfTwo ==
    ASSUME NEW a \in Int, NEW b \in Int PROVE Min({a, b}) = IF a <= b THEN a ELSE b
<1>1. \A x : x = a \/ x = b => ((\A y \in {a, b} : x <= y) <=> x = IF a <= b THEN a ELSE b)  OBVIOUS
<1> QED  BY <1>1 DEF Min

LEMMA ConcatIs ==
    ASSUME NEW S, NEW s \in Seq(S), NEW t \in Seq(S)
    PROVE  s \o t = [k \in 1 .. Len(s) + Len(t) |-> IF k <= Len(s) THEN s[k] ELSE t[k - Len(s)]]
<1> DEFINE both == s \o t
<1>1. /\ both \in Seq(S) /\ Len(both) = Len(s) + Len(t)
      /\ \A k \in 1 .. Len(s) + Len(t) : both[k] = IF k <= Len(s) THEN s[k] ELSE t[k - Len(s)]
  OBVIOUS
<1> HIDE DEF both
<1>2. both = [k \in 1 .. Len(both) |-> both[k]]  BY <1>1
<1> QED  BY <1>1, <1>2 DEF both

\* A remainder is the only one there is.
LEMMA RemainderIs ==
    ASSUME NEW m \in Nat \ {0}, NEW a \in Int, NEW q \in Int, NEW r \in 0 .. m - 1, a = m * q + r
    PROVE  a % m = r
<1> DEFINE p == a \div m
           s == a % m
<1>1. p \in Int /\ s \in 0 .. m - 1 /\ a = m * p + s  OBVIOUS
<1> HIDE DEF p, s
<1>2. m * (p - q) = r - s  BY <1>1
<1>3. CASE p - q >= 1
  <2>1. m * (p - q) >= m * 1  BY <1>1, <1>3
  <2> QED  BY <1>1, <1>2, <2>1
<1>4. CASE q - p >= 1
  <2>1. m * (q - p) >= m * 1 /\ m * (p - q) = -(m * (q - p))  BY <1>1, <1>4
  <2> QED  BY <1>1, <1>2, <2>1
<1>5. p = q => s = r  BY <1>1
<1>6. s = r  BY <1>1, <1>3, <1>4, <1>5
<1> QED  BY <1>6 DEF s

LEMMA RemainderNear ==
    ASSUME NEW m \in Nat \ {0}, NEW a \in Int
    PROVE  /\ a \in 0 .. m - 1 => a % m = a
           /\ a \in m .. 2 * m - 1 => a % m = a - m
           /\ a \in -m .. -1 => a % m = a + m
<1>1. a \in 0 .. m - 1 => a % m = a  BY RemainderIs
<1>2. ASSUME a \in m .. 2 * m - 1 PROVE a % m = a - m
  <2>1. a - m \in 0 .. m - 1 /\ a = m * 1 + (a - m)  BY <1>2
  <2> QED  BY <2>1, RemainderIs
<1>3. ASSUME a \in -m .. -1 PROVE a % m = a + m
  <2>1. a + m \in 0 .. m - 1 /\ a = m * (-1) + (a + m)  BY <1>3
  <2> QED  BY <2>1, RemainderIs
<1> QED  BY <1>1, <1>2, <1>3

\* The place of an index k further on.
LEMMA PlaceFurther ==
    ASSUME NEW m \in Nat \ {0}, NEW a \in Int, NEW k \in 0 .. m - 1
    PROVE  /\ a % m \in 0 .. m - 1
           /\ (a + k) % m = IF (a % m) + k < m THEN (a % m) + k ELSE (a % m) + k - m
<1> DEFINE q == a \div m
           s == a % m
<1>1. q \in Int /\ s \in 0 .. m - 1 /\ a = m * q + s  OBVIOUS
<1> HIDE DEF q, s
<1>2. CASE s + k < m
  <2>1. a + k = m * q + (s + k) /\ s + k \in 0 .. m - 1  BY <1>1, <1>2
  <2>2. (a + k) % m = s + k  BY <1>1, <2>1, RemainderIs
  <2> QED  BY <1>1, <1>2, <2>2 DEF s
<1>3. CASE ~(s + k < m)
  <2>1. a + k = m * (q + 1) + (s + k - m) /\ s + k - m \in 0 .. m - 1  BY <1>1, <1>3
  <2>2. q + 1 \in Int /\ a + k \in Int  BY <1>1
  <2>3. (a + k) % m = s + k - m  BY <2>1, <2>2, RemainderIs
  <2> QED  BY <1>1, <1>3, <2>3 DEF s
<1> QED  BY <1>2, <1>3

LEMMA SizesAreNumbers ==
    /\ RealCapacity \in Nat \ {0} /\ SIZE_MODULUS \in Nat \ {0} /\ CBUFF_CAPACITY \in Nat
    /\ RealCapacity = CBUFF_CAPACITY + 1 /\ RealCapacity <= SIZE_MODULUS
BY CbuffAssumption DEF RealCapacity

\* An index stays in its place if it does not wrap, or the real capacity divides the modulus.
LEMMA WrapsInPlace ==
    ASSUME NEW a \in 0 .. 2 * SIZE_MODULUS - 1,
           a < SIZE_MODULUS \/ SIZE_MODULUS % RealCapacity = 0
    PROVE  (a % SIZE_MODULUS) % RealCapacity = a % RealCapacity
<1> DEFINE M == SIZE_MODULUS
           R == RealCapacity
<1>1. R \in Nat \ {0} /\ M \in Nat \ {0} /\ a \in Int  BY SizesAreNumbers
<1>2. a < M \/ M % R = 0  OBVIOUS
<1> HIDE DEF M, R
<1>3. ASSUME M % R = 0 PROVE \E d \in Int : M = R * d
  <2>1. M \div R \in Int /\ M = R * (M \div R) + (M % R)  BY <1>1
  <2> QED  BY <1>1, <1>3, <2>1
<1>4. CASE a \in 0 .. M - 1  BY <1>1, <1>4, RemainderNear DEF M, R
<1>5. CASE a \in M .. 2 * M - 1
  <2>0. PICK d \in Int : M = R * d  BY <1>1, <1>2, <1>3, <1>5
  <2>1. a % M = a - M  BY <1>1, <1>5, RemainderNear
  <2> DEFINE q == a \div R
             s == a % R
  <2>2. q \in Int /\ s \in 0 .. R - 1 /\ a = R * q + s  BY <1>1
  <2> HIDE DEF q, s
  <2>3. a - M = R * (q - d) + s  BY <1>1, <2>0, <2>2
  <2>4. q - d \in Int /\ a - M \in Int  BY <1>1, <2>0, <2>2
  <2>5. (a - M) % R = s  BY <1>1, <2>2, <2>3, <2>4, RemainderIs
  <2> QED  BY <2>1, <2>5 DEF s, M, R
<1> QED  BY <1>1, <1>4, <1>5 DEF M

-----------------------------------------------------------------------------
(* CircularBuffer is a queue of bytes.                                     *)

\* Unless the buffer is astray, the write index is in its place behind the read index: it
\* has not wrapped alone, or wraps do no harm.
CbuffInv == /\ CbuffTypeOK /\ CbuffBytes \in 0 .. CBUFF_CAPACITY
            /\ ~cbuffAstray => cbuffRead <= cbuffWrite \/ SIZE_MODULUS % RealCapacity = 0
            /\ cbuffAstray => CbuffBytes > 0

\* The difference of the indexes is the number of bytes, or wraps to it.
LEMMA IndexesDiffer ==
    ASSUME NEW w \in 0 .. SIZE_MODULUS - 1, NEW r \in 0 .. SIZE_MODULUS - 1
    PROVE  (w - r) % SIZE_MODULUS = IF w >= r THEN w - r ELSE w - r + SIZE_MODULUS
<1>1. w - r \in Int /\ (w >= r => w - r \in 0 .. SIZE_MODULUS - 1) /\ (w < r => w - r \in -SIZE_MODULUS .. -1)
  BY SizesAreNumbers
<1>2. w >= r \/ w < r  BY SizesAreNumbers
<1> QED  BY <1>1, <1>2, SizesAreNumbers, RemainderNear

\* An index that advances wraps at most once.
LEMMA IndexAdvances ==
    ASSUME NEW w \in 0 .. SIZE_MODULUS - 1, NEW n \in 0 .. CBUFF_CAPACITY
    PROVE  /\ (w + n) % SIZE_MODULUS = IF w + n < SIZE_MODULUS THEN w + n ELSE w + n - SIZE_MODULUS
           /\ (w + n) % SIZE_MODULUS \in 0 .. SIZE_MODULUS - 1
<1>1. w % SIZE_MODULUS = w /\ n \in 0 .. SIZE_MODULUS - 1 /\ w \in Int  BY SizesAreNumbers, RemainderNear
<1>2. (w + n) % SIZE_MODULUS = IF w + n < SIZE_MODULUS THEN w + n ELSE w + n - SIZE_MODULUS
  BY <1>1, SizesAreNumbers, PlaceFurther
<1> QED  BY <1>1, <1>2, SizesAreNumbers

LEMMA HeldIs ==
    ASSUME CbuffInv
    PROVE  /\ cbuffRead \in 0 .. SIZE_MODULUS - 1 /\ cbuffWrite \in 0 .. SIZE_MODULUS - 1
           /\ CbuffBytes = IF cbuffWrite >= cbuffRead THEN cbuffWrite - cbuffRead
                           ELSE cbuffWrite - cbuffRead + SIZE_MODULUS
           /\ Len(CbuffHeld) = CbuffBytes /\ DOMAIN CbuffHeld = 1 .. CbuffBytes
           /\ CbuffHeld \in Seq(CBUFF_BYTES \cup {0})
           /\ CbuffGetFreeSpace = CBUFF_CAPACITY - CbuffBytes
<1>1. /\ cbuffRead \in 0 .. SIZE_MODULUS - 1 /\ cbuffWrite \in 0 .. SIZE_MODULUS - 1
      /\ CbuffBytes \in 0 .. CBUFF_CAPACITY
  BY DEF CbuffInv, CbuffTypeOK
<1>2. CbuffBytes = IF cbuffWrite >= cbuffRead THEN cbuffWrite - cbuffRead ELSE cbuffWrite - cbuffRead + SIZE_MODULUS
  BY <1>1, IndexesDiffer DEF CbuffBytes
<1>3. \A k \in 1 .. CbuffBytes : (cbuffRead + k - 1) % RealCapacity \in 0 .. RealCapacity - 1
  BY <1>1, SizesAreNumbers
<1>4. \A k \in 1 .. CbuffBytes : CbuffHeld[k] \in CBUFF_BYTES \cup {0}  BY <1>3 DEF CbuffHeld, CbuffInv, CbuffTypeOK
<1>5. CbuffHeld \in [1 .. CbuffBytes -> CBUFF_BYTES \cup {0}] /\ CbuffBytes \in Nat
  <2>1. CbuffHeld = [k \in 1 .. CbuffBytes |-> CbuffHeld[k]]  BY DEF CbuffHeld
  <2> QED  BY <1>1, <1>4, <2>1, SizesAreNumbers
<1>6. CbuffGetFreeSpace = CBUFF_CAPACITY - CbuffBytes
  <2> DEFINE a == RealCapacity - cbuffWrite + cbuffRead - 1
  <2>1. a \in Int /\ a = CBUFF_CAPACITY - (cbuffWrite - cbuffRead)  BY <1>1, SizesAreNumbers
  <2>2. CASE cbuffWrite >= cbuffRead
    <3>1. a = CBUFF_CAPACITY - CbuffBytes /\ a \in 0 .. SIZE_MODULUS - 1  BY <1>1, <1>2, <2>1, <2>2, SizesAreNumbers
    <3> HIDE DEF a
    <3>2. a % SIZE_MODULUS = a  BY <2>1, <3>1, SizesAreNumbers, RemainderNear
    <3> QED  BY <3>1, <3>2 DEF CbuffGetFreeSpace, a
  <2>3. CASE cbuffWrite < cbuffRead
    <3>1. a = CBUFF_CAPACITY - CbuffBytes + SIZE_MODULUS /\ a \in SIZE_MODULUS .. 2 * SIZE_MODULUS - 1
      BY <1>1, <1>2, <2>1, <2>3, SizesAreNumbers
    <3> HIDE DEF a
    <3>2. a % SIZE_MODULUS = a - SIZE_MODULUS  BY <2>1, <3>1, SizesAreNumbers, RemainderNear
    <3>3. a - SIZE_MODULUS = CBUFF_CAPACITY - CbuffBytes  BY <1>1, <3>1, SizesAreNumbers
    <3> QED  BY <3>2, <3>3 DEF CbuffGetFreeSpace, a
  <2> QED  BY <1>1, <2>2, <2>3, SizesAreNumbers
<1> QED  BY <1>1, <1>2, <1>5, <1>6

\* The places from an index on: the read index, the write index that far behind it.
LEMMA PlacesOfHeld ==
    ASSUME CbuffInv, ~cbuffAstray
    PROVE  LET s == cbuffRead % RealCapacity
               p == cbuffWrite % RealCapacity
           IN  /\ s \in 0 .. RealCapacity - 1 /\ p \in 0 .. RealCapacity - 1
               /\ p = IF s + CbuffBytes < RealCapacity THEN s + CbuffBytes ELSE s + CbuffBytes - RealCapacity
<1> DEFINE s == cbuffRead % RealCapacity
           p == cbuffWrite % RealCapacity
<1>1. /\ cbuffRead \in 0 .. SIZE_MODULUS - 1 /\ cbuffWrite \in 0 .. SIZE_MODULUS - 1
      /\ CbuffBytes = IF cbuffWrite >= cbuffRead THEN cbuffWrite - cbuffRead
                      ELSE cbuffWrite - cbuffRead + SIZE_MODULUS
      /\ CbuffBytes \in 0 .. CBUFF_CAPACITY
      /\ cbuffRead <= cbuffWrite \/ SIZE_MODULUS % RealCapacity = 0
  BY HeldIs DEF CbuffInv
<1>2. /\ cbuffRead + CbuffBytes \in 0 .. 2 * SIZE_MODULUS - 1
      /\ cbuffRead + CbuffBytes = cbuffWrite \/ cbuffRead + CbuffBytes = cbuffWrite + SIZE_MODULUS
      /\ cbuffRead <= cbuffWrite => cbuffRead + CbuffBytes < SIZE_MODULUS
  BY <1>1, SizesAreNumbers
<1>3. (cbuffRead + CbuffBytes) % SIZE_MODULUS = cbuffWrite
  BY <1>1, <1>2, SizesAreNumbers, RemainderNear
<1>4. (cbuffRead + CbuffBytes) % RealCapacity = p  BY <1>1, <1>2, <1>3, WrapsInPlace
<1>5. CbuffBytes \in 0 .. RealCapacity - 1 /\ cbuffRead \in Int /\ cbuffWrite \in Int
  BY <1>1, SizesAreNumbers
<1>6. s \in 0 .. RealCapacity - 1 /\ p \in 0 .. RealCapacity - 1  BY <1>5, SizesAreNumbers
<1>7. (cbuffRead + CbuffBytes) % RealCapacity = IF s + CbuffBytes < RealCapacity THEN s + CbuffBytes
                                               ELSE s + CbuffBytes - RealCapacity
  BY <1>5, SizesAreNumbers, PlaceFurther
<1> QED  BY <1>4, <1>6, <1>7

\* The k-th place after the first that is held.
Place(k) == (cbuffRead + k) % RealCapacity

LEMMA PlaceIs ==
    ASSUME CbuffInv, NEW k \in 0 .. CBUFF_CAPACITY
    PROVE  LET s == cbuffRead % RealCapacity
           IN  /\ Place(k) = IF s + k < RealCapacity THEN s + k ELSE s + k - RealCapacity
               /\ Place(k) \in 0 .. RealCapacity - 1
<1>1. cbuffRead \in Int /\ k \in 0 .. RealCapacity - 1  BY SizesAreNumbers DEF CbuffInv, CbuffTypeOK
<1>2. cbuffRead + k \in Int  BY <1>1
<1> QED  BY <1>1, <1>2, SizesAreNumbers, PlaceFurther DEF Place

\* A write changes bytes of the array.
LEMMA StoredIsAnArray ==
    ASSUME CbuffInv, NEW bytes \in Seq(CBUFF_BYTES), NEW index \in Int, Len(bytes) < RealCapacity
    PROVE  LET p == index % RealCapacity
               m == Len(bytes)
               first == FirstChunk(index, m)
               arr == Stored(index, bytes)
           IN  /\ p \in 0 .. RealCapacity - 1
               /\ first = IF m <= RealCapacity - p THEN m ELSE RealCapacity - p
               /\ arr = [i \in 0 .. RealCapacity - 1 |->
                            IF i - p \in 0 .. first - 1 THEN bytes[i - p + 1]
                            ELSE IF i < m - first THEN bytes[first + i + 1] ELSE cbuffArr[i]]
               /\ arr \in [0 .. RealCapacity - 1 -> CBUFF_BYTES \cup {0}]
<1> DEFINE p == index % RealCapacity
           m == Len(bytes)
           R == RealCapacity
           first == FirstChunk(index, m)
           arr == Stored(index, bytes)
<1>1. p \in 0 .. R - 1 /\ m \in Nat /\ m < R /\ R \in Nat  BY SizesAreNumbers
<1>2. first = IF m <= R - p THEN m ELSE R - p
  <2>1. m \in Int /\ R - p \in Int  BY <1>1
  <2> QED  BY <2>1, MinOfTwo DEF FirstChunk
<1>3. /\ DOMAIN cbuffArr = 0 .. R - 1
      /\ \A i \in 0 .. R - 1 : cbuffArr[i] \in CBUFF_BYTES \cup {0}
  BY DEF CbuffInv, CbuffTypeOK
<1>4. arr = [i \in 0 .. R - 1 |-> IF i - p \in 0 .. first - 1 THEN bytes[i - p + 1]
                                  ELSE IF i < m - first THEN bytes[first + i + 1] ELSE cbuffArr[i]]
  BY <1>3 DEF Stored
<1>6. \A k \in 1 .. m : bytes[k] \in CBUFF_BYTES  OBVIOUS
<1> HIDE DEF p, m, R, first, arr
<1>7. ASSUME NEW i \in 0 .. R - 1 PROVE arr[i] \in CBUFF_BYTES \cup {0}
  <2>1. CASE i - p \in 0 .. first - 1
    <3>1. i - p + 1 \in 1 .. m  BY <1>1, <1>2, <2>1
    <3> QED  BY <1>4, <1>6, <2>1, <3>1
  <2>2. CASE i - p \notin 0 .. first - 1 /\ i < m - first
    <3>1. first + i + 1 \in 1 .. m  BY <1>1, <1>2, <2>2
    <3> QED  BY <1>4, <1>6, <2>2, <3>1
  <2>3. CASE i - p \notin 0 .. first - 1 /\ ~(i < m - first)  BY <1>3, <1>4, <2>3
  <2> QED  BY <2>1, <2>2, <2>3
<1>8. arr \in [0 .. R - 1 -> CBUFF_BYTES \cup {0}]  BY <1>4, <1>7
<1> QED  BY <1>1, <1>2, <1>4, <1>8 DEF p, m, R, first, arr

\* Of places from s on, n that are held are apart from m that are written at p, behind them.
LEMMA HeldIsApart ==
    ASSUME NEW R \in Nat, NEW s \in 0 .. R - 1, NEW p \in 0 .. R - 1, NEW n \in Nat, NEW m \in Nat,
           n + m < R, p = IF s + n < R THEN s + n ELSE s + n - R,
           NEW first, first = IF m <= R - p THEN m ELSE R - p,
           NEW k \in 0 .. n - 1, NEW place, place = IF s + k < R THEN s + k ELSE s + k - R
    PROVE  ~(place - p \in 0 .. first - 1) /\ ~(place < m - first)
<1>1. first \in Int /\ place \in Int /\ first <= m  OBVIOUS
<1>2. CASE s + n < R
  <2>1. p = s + n /\ place = s + k /\ place < p  BY <1>2
  <2> QED  BY <1>1, <2>1
<1>3. CASE s + n >= R
  <2>1. p = s + n - R /\ p < s /\ first = m  BY <1>3
  <2>2. place < p \/ place >= s  BY <1>3, <2>1
  <2> QED  BY <1>1, <2>1, <2>2
<1> QED  BY <1>2, <1>3

\* What was asked to be stored is, after what is held, which stays where it is.
LEMMA StoredIs ==
    ASSUME CbuffInv, ~cbuffAstray,
           NEW bytes \in Seq(CBUFF_BYTES), CbuffBytes + Len(bytes) <= CBUFF_CAPACITY,
           NEW arr, arr = Stored(cbuffWrite, bytes)
    PROVE  /\ \A k \in 0 .. CbuffBytes - 1 : arr[Place(k)] = cbuffArr[Place(k)]
           /\ \A k \in 0 .. Len(bytes) - 1 : arr[Place(CbuffBytes + k)] = bytes[k + 1]
<1> DEFINE s == cbuffRead % RealCapacity
           p == cbuffWrite % RealCapacity
           n == CbuffBytes
           m == Len(bytes)
           R == RealCapacity
           first == FirstChunk(cbuffWrite, m)
<1>1. /\ s \in 0 .. R - 1 /\ p \in 0 .. R - 1
      /\ p = IF s + n < R THEN s + n ELSE s + n - R
      /\ n \in 0 .. CBUFF_CAPACITY /\ m \in Nat /\ n + m < R
      /\ CBUFF_CAPACITY \in Nat /\ R = CBUFF_CAPACITY + 1
  BY PlacesOfHeld, SizesAreNumbers DEF CbuffInv
<1>2. /\ first = IF m <= R - p THEN m ELSE R - p
      /\ arr = [i \in 0 .. R - 1 |-> IF i - p \in 0 .. first - 1 THEN bytes[i - p + 1]
                                     ELSE IF i < m - first THEN bytes[first + i + 1] ELSE cbuffArr[i]]
  <2>1. cbuffWrite \in Int /\ Len(bytes) < RealCapacity  BY <1>1, SizesAreNumbers DEF CbuffInv, CbuffTypeOK
  <2> QED  BY <2>1, StoredIsAnArray
<1>5. \A k \in 0 .. CBUFF_CAPACITY : /\ Place(k) = IF s + k < R THEN s + k ELSE s + k - R
                                     /\ Place(k) \in 0 .. R - 1
  BY PlaceIs
<1> HIDE DEF s, p, n, m, R, first
<1>9. ASSUME NEW k \in 0 .. n - 1 PROVE arr[Place(k)] = cbuffArr[Place(k)]
  <2>1. k \in 0 .. CBUFF_CAPACITY  BY <1>1
  <2>2. /\ Place(k) \in 0 .. R - 1
        /\ Place(k) = IF s + k < R THEN s + k ELSE s + k - R
    BY <1>5, <2>1
  <2>3. /\ first = IF m <= R - p THEN m ELSE R - p
        /\ R \in Nat
    BY <1>1, <1>2
  <2>4. ~(Place(k) - p \in 0 .. first - 1) /\ ~(Place(k) < m - first)
    BY <1>1, <2>2, <2>3, HeldIsApart
  <2> QED  BY <1>2, <2>2, <2>4
<1>10. ASSUME NEW k \in 0 .. m - 1 PROVE arr[Place(n + k)] = bytes[k + 1]
  <2>1. n + k \in 0 .. CBUFF_CAPACITY  BY <1>1
  <2>2. /\ Place(n + k) \in 0 .. R - 1
        /\ Place(n + k) = IF s + (n + k) < R THEN s + (n + k) ELSE s + (n + k) - R
    BY <1>5, <2>1
  <2>3. CASE k < first
    <3>1. Place(n + k) - p = k  BY <1>1, <1>2, <2>2, <2>3
    <3>2. Place(n + k) - p \in 0 .. first - 1 /\ Place(n + k) - p + 1 = k + 1  BY <1>1, <1>2, <2>3, <3>1
    <3> QED  BY <1>2, <2>2, <3>2
  <2>4. CASE ~(k < first)
    <3>1. Place(n + k) = k - first /\ first = R - p  BY <1>1, <1>2, <2>2, <2>4
    <3>2. ~(Place(n + k) - p \in 0 .. first - 1) /\ Place(n + k) < m - first /\ first + Place(n + k) + 1 = k + 1
      BY <1>1, <1>2, <2>4, <3>1
    <3> QED  BY <1>2, <2>2, <3>2
  <2> QED  BY <2>3, <2>4
<1> QED  BY <1>9, <1>10 DEF n, m

\* What a read fetches is what is held, from the first on.
LEMMA FetchedIs ==
    ASSUME CbuffInv, NEW n \in 0 .. CbuffBytes
    PROVE  Fetched(cbuffRead, n) = SubSeq(CbuffHeld, 1, n)
<1> DEFINE s == cbuffRead % RealCapacity
           R == RealCapacity
           first == FirstChunk(cbuffRead, n)
<1>1. /\ s \in 0 .. R - 1 /\ n \in Nat /\ n < R /\ n <= CbuffBytes
      /\ CBUFF_CAPACITY \in Nat /\ R = CBUFF_CAPACITY + 1 /\ CbuffBytes \in 0 .. CBUFF_CAPACITY
      /\ cbuffRead \in Int
  BY SizesAreNumbers DEF CbuffInv, CbuffTypeOK
<1>2. first = IF n <= R - s THEN n ELSE R - s  BY <1>1, MinOfTwo DEF FirstChunk
<1>3. Len(CbuffHeld) = CbuffBytes /\ CbuffHeld \in Seq(CBUFF_BYTES \cup {0})  BY HeldIs
<1>4. SubSeq(CbuffHeld, 1, n) = [k \in 1 .. n |-> CbuffHeld[k]]  BY <1>1, <1>3
<1>5. \A k \in 0 .. CBUFF_CAPACITY : Place(k) = IF s + k < R THEN s + k ELSE s + k - R  BY PlaceIs
<1>6. Fetched(cbuffRead, n) = [k \in 1 .. n |-> IF k <= first THEN cbuffArr[s + k - 1] ELSE cbuffArr[k - first - 1]]
  BY DEF Fetched
<1>7. \A k \in 1 .. n : CbuffHeld[k] = cbuffArr[Place(k - 1)]
  <2>1. \A k \in 1 .. n : k \in 1 .. CbuffBytes /\ cbuffRead + k - 1 = cbuffRead + (k - 1)  BY <1>1
  <2> QED  BY <2>1 DEF CbuffHeld, Place
<1> HIDE DEF s, R, first
<1>8. ASSUME NEW k \in 1 .. n PROVE Place(k - 1) = IF k <= first THEN s + k - 1 ELSE k - first - 1
  <2>1. k - 1 \in 0 .. CBUFF_CAPACITY  BY <1>1
  <2>2. Place(k - 1) = IF s + (k - 1) < R THEN s + (k - 1) ELSE s + (k - 1) - R  BY <1>5, <2>1
  <2> QED  BY <1>1, <1>2, <2>2
<1> QED  BY <1>4, <1>6, <1>7, <1>8

LEMMA CbuffBegins == CbuffInit => CbuffInv /\ CbuffHeld = <<>>
<1> SUFFICES ASSUME CbuffInit PROVE CbuffInv /\ CbuffHeld = <<>>  OBVIOUS
<1>0. cbuffRead <= cbuffWrite /\ ~cbuffAstray  BY DEF CbuffInit
<1>1. CbuffTypeOK
  <2>1. cbuffAstray \in BOOLEAN  BY Zenon DEF CbuffInit
  <2>2. cbuffArr \in [0 .. RealCapacity - 1 -> CBUFF_BYTES \cup {0}]  BY DEF CbuffInit
  <2> QED  BY <2>1, <2>2, SizesAreNumbers DEF CbuffInit, CbuffTypeOK
<1>2. CbuffBytes = 0  BY SizesAreNumbers, RemainderNear DEF CbuffInit, CbuffBytes
<1>3. CbuffHeld = <<>>  BY <1>2 DEF CbuffHeld
<1> QED  BY <1>0, <1>1, <1>2, <1>3, SizesAreNumbers DEF CbuffInv

LEMMA FlushEmpties == CbuffInv /\ CbuffFlush => CbuffInv' /\ CbuffHeld' = <<>>
<1> SUFFICES ASSUME CbuffInv, CbuffFlush PROVE CbuffInv' /\ CbuffHeld' = <<>>  OBVIOUS
<1>0. cbuffRead' <= cbuffWrite' /\ ~cbuffAstray'  BY DEF CbuffFlush
<1>1. CbuffTypeOK'  BY SizesAreNumbers DEF CbuffFlush, CbuffInv, CbuffTypeOK
<1>2. CbuffBytes' = 0  BY SizesAreNumbers, RemainderNear DEF CbuffFlush, CbuffBytes
<1>3. CbuffHeld' = <<>>  BY <1>2 DEF CbuffHeld
<1> QED  BY <1>0, <1>1, <1>2, <1>3, SizesAreNumbers DEF CbuffInv

\* A write adds what there is room for at the end.
LEMMA WriteAppends ==
    ASSUME CbuffInv, NEW src \in Seq(CBUFF_BYTES), CbuffWrite(src)
    PROVE  LET n == Min({Len(src), CBUFF_CAPACITY - Len(CbuffHeld)})
           IN  /\ CbuffInv' /\ Len(CbuffHeld') = Len(CbuffHeld) + n
               /\ cbuffAstray \/ CbuffHeld' = CbuffHeld \o SubSeq(src, 1, n)
               /\ cbuffReply' = <<"write", src, n>> /\ n \in 0 .. Len(src)
               /\ CbuffHeld' = <<>> => cbuffAstray' = FALSE
<1> DEFINE n == Min({Len(src), CBUFF_CAPACITY - Len(CbuffHeld)})
           M == SIZE_MODULUS
           b == CbuffBytes
           bytes == SubSeq(src, 1, n)
<1>1. /\ cbuffRead \in 0 .. M - 1 /\ cbuffWrite \in 0 .. M - 1
      /\ b = IF cbuffWrite >= cbuffRead THEN cbuffWrite - cbuffRead ELSE cbuffWrite - cbuffRead + M
      /\ Len(CbuffHeld) = b /\ DOMAIN CbuffHeld = 1 .. b /\ CbuffHeld \in Seq(CBUFF_BYTES \cup {0})
      /\ CbuffGetFreeSpace = CBUFF_CAPACITY - b /\ b \in 0 .. CBUFF_CAPACITY
  BY HeldIs DEF CbuffInv
<1>2. /\ M \in Nat \ {0} /\ RealCapacity \in Nat \ {0} /\ CBUFF_CAPACITY \in Nat
      /\ CBUFF_CAPACITY < M /\ RealCapacity = CBUFF_CAPACITY + 1
  BY SizesAreNumbers
<1>3. n \in 0 .. Len(src) /\ n <= CBUFF_CAPACITY - b
  <2>1. Len(src) \in Nat /\ CBUFF_CAPACITY - b \in Nat  BY <1>1, <1>2
  <2>2. n = IF Len(src) <= CBUFF_CAPACITY - b THEN Len(src) ELSE CBUFF_CAPACITY - b  BY <1>1, <2>1, MinOfTwo
  <2> HIDE DEF n, b
  <2> QED  BY <2>1, <2>2
<1>4. /\ cbuffArr' = Stored(cbuffWrite, bytes) /\ cbuffWrite' = (cbuffWrite + n) % M
      /\ cbuffReply' = <<"write", src, n>> /\ cbuffRead' = cbuffRead
      /\ cbuffAstray' = (cbuffAstray \/ ~StaysInPlace(cbuffWrite, n))
  BY <1>1 DEF CbuffWrite
<1>0. /\ cbuffAstray \in BOOLEAN /\ (cbuffAstray => b > 0)
      /\ ~cbuffAstray => cbuffRead <= cbuffWrite \/ M % RealCapacity = 0
  BY DEF CbuffInv, CbuffTypeOK
<1> HIDE DEF n, M, b
<1>5. /\ bytes \in Seq(CBUFF_BYTES) /\ Len(bytes) = n
      /\ \A k \in 1 .. n : bytes[k] = src[k]
  BY <1>3
<1>6. cbuffArr' \in [0 .. RealCapacity - 1 -> CBUFF_BYTES \cup {0}]
  <2>1. Len(bytes) < RealCapacity /\ cbuffWrite \in Int  BY <1>1, <1>2, <1>3, <1>5
  <2> HIDE DEF bytes
  <2> QED  BY <1>4, <1>5, <2>1, StoredIsAnArray
<1>7. cbuffWrite' \in 0 .. M - 1 /\ cbuffWrite' = IF cbuffWrite + n < M THEN cbuffWrite + n ELSE cbuffWrite + n - M
  <2>1. n \in 0 .. CBUFF_CAPACITY  BY <1>1, <1>2, <1>3
  <2> QED  BY <1>1, <1>4, <2>1, IndexAdvances DEF M
<1>8. CbuffBytes' = b + n
  <2>1. CbuffBytes' = IF cbuffWrite' >= cbuffRead THEN cbuffWrite' - cbuffRead ELSE cbuffWrite' - cbuffRead + M
    BY <1>1, <1>4, <1>7, IndexesDiffer DEF CbuffBytes, M
  <2> QED  BY <1>1, <1>2, <1>3, <1>7, <2>1
<1>9. CbuffInv'
  <2>1. CbuffTypeOK'
    <3>1. cbuffAstray' \in BOOLEAN  BY <1>4, Zenon
    <3> QED  BY <1>1, <1>4, <1>6, <1>7, <3>1 DEF CbuffTypeOK, M
  <2>2. ASSUME ~cbuffAstray' PROVE cbuffRead' <= cbuffWrite' \/ M % RealCapacity = 0
    <3>1. ~cbuffAstray /\ StaysInPlace(cbuffWrite, n)  BY <1>4, <2>2, Zenon
    <3>2. CASE M % RealCapacity = 0  BY <3>2
    <3>3. CASE cbuffRead <= cbuffWrite /\ cbuffWrite + n < M  BY <1>1, <1>2, <1>3, <1>4, <1>7, <3>3
    <3> QED  BY <1>0, <3>1, <3>2, <3>3 DEF StaysInPlace, M
  <2>3. ASSUME cbuffAstray' PROVE b + n > 0
    <3>1. cbuffAstray \/ ~StaysInPlace(cbuffWrite, n)  BY <1>4, <2>3, Zenon
    <3>2. CASE cbuffAstray  BY <1>0, <1>1, <1>2, <1>3, <3>2
    <3>3. CASE ~(cbuffWrite + n < M)  BY <1>1, <1>2, <1>3, <3>3
    <3> QED  BY <3>1, <3>2, <3>3 DEF StaysInPlace, M
  <2>4. b + n \in 0 .. CBUFF_CAPACITY  BY <1>1, <1>2, <1>3
  <2> QED  BY <1>8, <2>1, <2>2, <2>3, <2>4 DEF CbuffInv, M
<1>10. CbuffHeld' = [k \in 1 .. b + n |-> cbuffArr'[(cbuffRead + k - 1) % RealCapacity]]
  BY <1>4, <1>8 DEF CbuffHeld
<1>11. Len(CbuffHeld') = b + n
  <2>1. b + n \in Nat  BY <1>1, <1>2, <1>3
  <2> QED  BY <1>10, <2>1
<1>12. CbuffHeld' = <<>> => cbuffAstray' = FALSE
  <2>1. CbuffHeld' = <<>> => b + n = 0  BY <1>11
  <2>2. CbuffHeld' = <<>> => ~cbuffAstray'  BY <1>8, <1>9, <2>1 DEF CbuffInv
  <2>3. cbuffAstray' \in BOOLEAN  BY <1>9 DEF CbuffInv, CbuffTypeOK
  <2> QED  BY <2>2, <2>3, Zenon
<1>13. ASSUME ~cbuffAstray PROVE CbuffHeld' = CbuffHeld \o bytes
  <2>1. /\ \A k \in 0 .. b - 1 : cbuffArr'[Place(k)] = cbuffArr[Place(k)]
        /\ \A k \in 0 .. n - 1 : cbuffArr'[Place(b + k)] = bytes[k + 1]
    <3>1. b + Len(bytes) <= CBUFF_CAPACITY  BY <1>1, <1>2, <1>3, <1>5
    <3> HIDE DEF bytes
    <3>2. CbuffBytes + Len(bytes) <= CBUFF_CAPACITY  BY <3>1 DEF b
    <3> QED  BY <1>4, <1>5, <1>13, <3>2, StoredIs DEF b
  <2>2. ASSUME NEW k \in 1 .. b + n
        PROVE  cbuffArr'[(cbuffRead + k - 1) % RealCapacity] = IF k <= b THEN CbuffHeld[k] ELSE src[k - b]
    <3>1. cbuffRead + k - 1 = cbuffRead + (k - 1)  BY <1>1, <1>2, <1>3
    <3>2. CASE k <= b
      <4>1. k - 1 \in 0 .. b - 1 /\ k \in 1 .. CbuffBytes  BY <1>1, <1>3, <3>2 DEF b
      <4> QED  BY <2>1, <3>1, <3>2, <4>1 DEF CbuffHeld, Place
    <3>3. CASE ~(k <= b)
      <4>1. k - 1 - b \in 0 .. n - 1 /\ b + (k - 1 - b) = k - 1 /\ (k - 1 - b) + 1 = k - b /\ k - b \in 1 .. n
        BY <1>1, <1>2, <1>3, <3>3
      <4>2. cbuffArr'[Place(k - 1)] = bytes[k - b]  BY <2>1, <4>1
      <4> QED  BY <1>5, <3>1, <3>3, <4>1, <4>2 DEF Place
    <3> QED  BY <3>2, <3>3
  <2>3. CbuffHeld \o bytes = [k \in 1 .. b + n |-> IF k <= b THEN CbuffHeld[k] ELSE src[k - b]]
    <3> HIDE DEF bytes
    <3>1. CbuffHeld \o bytes = [k \in 1 .. b + n |-> IF k <= b THEN CbuffHeld[k] ELSE bytes[k - b]]
      <4>1. CbuffHeld \o bytes = [k \in 1 .. Len(CbuffHeld) + Len(bytes) |->
                                      IF k <= Len(CbuffHeld) THEN CbuffHeld[k] ELSE bytes[k - Len(CbuffHeld)]]
        <5>1. bytes \in Seq(CBUFF_BYTES \cup {0})  BY <1>5
        <5> QED  BY <1>1, <5>1, ConcatIs
      <4> QED  BY <1>1, <1>5, <4>1
    <3>2. \A k \in 1 .. b + n : ~(k <= b) => k - b \in 1 .. n  BY <1>1, <1>3
    <3> QED  BY <1>5, <3>1, <3>2
  <2> QED  BY <1>10, <2>2, <2>3
<1>14. Len(CbuffHeld') = Len(CbuffHeld) + n  BY <1>1, <1>11
<1> QED  BY <1>3, <1>4, <1>9, <1>12, <1>13, <1>14 DEF n

\* A read takes what there is from the front.
LEMMA ReadTakes ==
    ASSUME CbuffInv, NEW num \in Nat, CbuffReadBytes(num)
    PROVE  LET n == Min({num, Len(CbuffHeld)})
           IN  /\ CbuffInv' /\ Len(CbuffHeld') = Len(CbuffHeld) - n
               /\ cbuffAstray \/ CbuffHeld' = SubSeq(CbuffHeld, n + 1, Len(CbuffHeld))
               /\ cbuffReply' = <<"read", SubSeq(CbuffHeld, 1, n), n>> /\ n \in 0 .. Len(CbuffHeld)
               /\ CbuffHeld' = <<>> => cbuffAstray' = FALSE
<1> DEFINE n == Min({num, Len(CbuffHeld)})
           M == SIZE_MODULUS
           b == CbuffBytes
<1>1. /\ cbuffRead \in 0 .. M - 1 /\ cbuffWrite \in 0 .. M - 1
      /\ b = IF cbuffWrite >= cbuffRead THEN cbuffWrite - cbuffRead ELSE cbuffWrite - cbuffRead + M
      /\ Len(CbuffHeld) = b /\ DOMAIN CbuffHeld = 1 .. b /\ CbuffHeld \in Seq(CBUFF_BYTES \cup {0})
      /\ b \in 0 .. CBUFF_CAPACITY
  BY HeldIs DEF CbuffInv
<1>2. /\ M \in Nat \ {0} /\ RealCapacity \in Nat \ {0} /\ CBUFF_CAPACITY \in Nat
      /\ CBUFF_CAPACITY < M /\ RealCapacity = CBUFF_CAPACITY + 1
  BY SizesAreNumbers
<1>3. n \in 0 .. b /\ b \in Nat
  <2>1. b \in Nat  BY <1>1, <1>2
  <2> QED  BY <1>1, <2>1, MinOfTwo
<1>4. /\ cbuffReply' = <<"read", Fetched(cbuffRead, n), n>> /\ cbuffRead' = (cbuffRead + n) % M
      /\ cbuffArr' = cbuffArr /\ cbuffWrite' = cbuffWrite
      /\ cbuffAstray' = (cbuffAstray /\ n < b)
  BY <1>1 DEF CbuffReadBytes
<1>0. /\ cbuffAstray \in BOOLEAN
      /\ ~cbuffAstray => cbuffRead <= cbuffWrite \/ M % RealCapacity = 0
  BY DEF CbuffInv, CbuffTypeOK
<1> HIDE DEF n, M, b
<1>5. Fetched(cbuffRead, n) = SubSeq(CbuffHeld, 1, n)  BY <1>3, FetchedIs DEF b
<1>6. cbuffRead' \in 0 .. M - 1 /\ cbuffRead' = IF cbuffRead + n < M THEN cbuffRead + n ELSE cbuffRead + n - M
  <2>1. n \in 0 .. CBUFF_CAPACITY  BY <1>1, <1>2, <1>3
  <2> QED  BY <1>1, <1>4, <2>1, IndexAdvances DEF M
<1>7. CbuffBytes' = b - n
  <2>1. CbuffBytes' = IF cbuffWrite >= cbuffRead' THEN cbuffWrite - cbuffRead' ELSE cbuffWrite - cbuffRead' + M
    BY <1>1, <1>4, <1>6, IndexesDiffer DEF CbuffBytes, M
  <2> QED  BY <1>1, <1>2, <1>3, <1>6, <2>1
<1>8. CbuffInv'
  <2>1. CbuffTypeOK'
    <3>1. cbuffAstray' \in BOOLEAN  BY <1>4, Zenon
    <3> QED  BY <1>1, <1>4, <1>6, <3>1 DEF CbuffInv, CbuffTypeOK, M
  <2>2. ASSUME ~cbuffAstray' PROVE cbuffRead' <= cbuffWrite' \/ M % RealCapacity = 0
    <3>1. CASE ~cbuffAstray
      <4>1. CASE M % RealCapacity = 0  BY <4>1
      <4>2. CASE cbuffRead <= cbuffWrite  BY <1>1, <1>2, <1>3, <1>4, <1>6, <4>2
      <4> QED  BY <1>0, <3>1, <4>1, <4>2
    <3>2. CASE cbuffAstray
      <4>1. ~(n < b)  BY <1>4, <2>2, <3>2, Zenon
      <4>2. n = b  BY <1>3, <4>1
      <4>3. cbuffRead' = cbuffWrite  BY <1>1, <1>2, <1>6, <4>2
      <4> QED  BY <1>1, <1>2, <1>4, <4>3
    <3> QED  BY <3>1, <3>2
  <2>3. ASSUME cbuffAstray' PROVE b - n > 0
    <3>1. n < b  BY <1>4, <2>3, Zenon
    <3> QED  BY <1>3, <3>1
  <2>4. b - n \in 0 .. CBUFF_CAPACITY  BY <1>1, <1>2, <1>3
  <2> QED  BY <1>7, <2>1, <2>2, <2>3, <2>4 DEF CbuffInv, M
<1>9. CbuffHeld' = [k \in 1 .. b - n |-> cbuffArr[(cbuffRead' + k - 1) % RealCapacity]]
  BY <1>4, <1>7 DEF CbuffHeld
<1>10. Len(CbuffHeld') = b - n
  <2>1. b - n \in Nat  BY <1>3
  <2> QED  BY <1>9, <2>1
<1>11. CbuffHeld' = <<>> => cbuffAstray' = FALSE
  <2>1. CbuffHeld' = <<>> => b - n = 0  BY <1>10
  <2>2. CbuffHeld' = <<>> => ~cbuffAstray'  BY <1>7, <1>8, <2>1 DEF CbuffInv
  <2>3. cbuffAstray' \in BOOLEAN  BY <1>8 DEF CbuffInv, CbuffTypeOK
  <2> QED  BY <2>2, <2>3, Zenon
<1>12. ASSUME ~cbuffAstray PROVE CbuffHeld' = SubSeq(CbuffHeld, n + 1, Len(CbuffHeld))
  <2>1. ASSUME NEW k \in 1 .. b - n
        PROVE  cbuffArr[(cbuffRead' + k - 1) % RealCapacity] = CbuffHeld[n + k]
    <3>1. (cbuffRead' + k - 1) % RealCapacity = (cbuffRead + n + k - 1) % RealCapacity
      <4> DEFINE j == k - 1
                 R == RealCapacity
      <4>1. /\ j \in 0 .. R - 1 /\ cbuffRead + n \in 0 .. 2 * M - 1 /\ cbuffRead' \in Int /\ cbuffRead + n \in Int
            /\ cbuffRead' + k - 1 = cbuffRead' + j /\ cbuffRead + n + k - 1 = (cbuffRead + n) + j
        BY <1>1, <1>2, <1>3, <1>6
      <4>2. cbuffRead' % R = (cbuffRead + n) % R
        <5>1. cbuffRead + n < M \/ M % RealCapacity = 0
          <6>1. CASE cbuffRead <= cbuffWrite  BY <1>1, <1>2, <1>3, <6>1
          <6> QED  BY <1>0, <1>12, <6>1
        <5> QED  BY <1>4, <4>1, <5>1, WrapsInPlace DEF M
      <4> HIDE DEF j, R
      <4>3. R \in Nat \ {0}  BY <1>2 DEF R
      <4>4. (cbuffRead' + j) % R = ((cbuffRead + n) + j) % R
        <5>1. (cbuffRead' + j) % R = IF (cbuffRead' % R) + j < R THEN (cbuffRead' % R) + j ELSE (cbuffRead' % R) + j - R
          BY <4>1, <4>3, PlaceFurther
        <5>2. ((cbuffRead + n) + j) % R =
                  IF ((cbuffRead + n) % R) + j < R THEN ((cbuffRead + n) % R) + j ELSE ((cbuffRead + n) % R) + j - R
          BY <4>1, <4>3, PlaceFurther
        <5> QED  BY <4>2, <5>1, <5>2
      <4> QED  BY <4>1, <4>4 DEF R
    <3>2. n + k \in 1 .. CbuffBytes /\ cbuffRead + n + k - 1 = cbuffRead + (n + k) - 1  BY <1>1, <1>2, <1>3 DEF b
    <3> QED  BY <3>1, <3>2 DEF CbuffHeld
  <2>2. SubSeq(CbuffHeld, n + 1, Len(CbuffHeld)) = [k \in 1 .. b - n |-> CbuffHeld[n + k]]
    <3>1. SubSeq(CbuffHeld, n + 1, b) = [k \in 1 .. b - (n + 1) + 1 |-> CbuffHeld[k + (n + 1) - 1]]  BY <1>1, <1>3
    <3>2. b - (n + 1) + 1 = b - n /\ \A k \in 1 .. b - n : k + (n + 1) - 1 = n + k  BY <1>1, <1>3
    <3> QED  BY <1>1, <3>1, <3>2
  <2> QED  BY <1>9, <2>1, <2>2
<1>13. Len(CbuffHeld') = Len(CbuffHeld) - n  BY <1>1, <1>10
<1> QED  BY <1>1, <1>3, <1>4, <1>5, <1>8, <1>11, <1>12, <1>13 DEF n

(***************************************************************************)
(* For every capacity that an array can have, and whatever is written,     *)
(* read and flushed: the array is a queue of bytes.  The one exception     *)
(* is an index that wraps out of its place, from there to the next time    *)
(* that the buffer is empty; even then the numbers of bytes are right.     *)
(***************************************************************************)
THEOREM BufferIsAByteQueue == CbuffSpec => CbuffImplementsByteQueue
<1> DEFINE Shown == <<CbuffHeld, cbuffReply, cbuffAstray>>
<1>1. CbuffInit => CbuffInv /\ ByteQ!Init
  BY CbuffBegins DEF CbuffHeld, ByteQ!Init, CbuffInit
<1>2. CbuffInv /\ [CbuffNext]_cbuffVars => CbuffInv' /\ [ByteQ!Next]_Shown
  <2> SUFFICES ASSUME CbuffInv, [CbuffNext]_cbuffVars PROVE CbuffInv' /\ [ByteQ!Next]_Shown  OBVIOUS
  <2>1. CASE UNCHANGED cbuffVars
    BY <2>1 DEF cbuffVars, CbuffInv, CbuffTypeOK, CbuffBytes, CbuffHeld
  <2>2. CASE CbuffFlush
    <3>1. ByteQ!Flush /\ cbuffAstray' = FALSE  BY <2>2, FlushEmpties DEF ByteQ!Flush, CbuffHeld, CbuffFlush
    <3> QED  BY <2>2, <3>1, FlushEmpties DEF ByteQ!Next
  <2>3. ASSUME NEW src \in BoundedSeq(CBUFF_BYTES, CBUFF_CALL), CbuffWrite(src)
        PROVE  CbuffInv' /\ ByteQ!Next
    <3>1. src \in Seq(CBUFF_BYTES)
      BY CbuffAssumption DEF BoundedSeq, SeqOf
    <3> DEFINE n == Min({Len(src), CBUFF_CAPACITY - Len(CbuffHeld)})
    <3>2. /\ CbuffInv' /\ Len(CbuffHeld') = Len(CbuffHeld) + n
          /\ cbuffAstray \/ CbuffHeld' = CbuffHeld \o SubSeq(src, 1, n)
          /\ cbuffReply' = <<"write", src, n>> /\ n \in 0 .. Len(src)
          /\ CbuffHeld' = <<>> => cbuffAstray' = FALSE
      BY <2>3, <3>1, WriteAppends
    <3>3. Len(SubSeq(src, 1, n)) = n
      <4> HIDE DEF n
      <4> QED  BY <3>1, <3>2
    <3>4. ByteQ!Write(src)  BY <3>2, <3>3 DEF ByteQ!Write, ByteQ!Taken, ByteQ!Min, Min
    <3> QED  BY <3>2, <3>4 DEF ByteQ!Next, BoundedSeq, SeqOf, ByteQ!BoundedSeq, ByteQ!SeqOf
  <2>4. ASSUME NEW num \in 0 .. CBUFF_CALL, CbuffReadBytes(num)
        PROVE  CbuffInv' /\ ByteQ!Next
    <3> DEFINE n == Min({num, Len(CbuffHeld)})
               rest == SubSeq(CbuffHeld, n + 1, Len(CbuffHeld))
    <3>1. /\ CbuffInv' /\ Len(CbuffHeld') = Len(CbuffHeld) - n
          /\ cbuffAstray \/ CbuffHeld' = rest
          /\ cbuffReply' = <<"read", SubSeq(CbuffHeld, 1, n), n>> /\ n \in 0 .. Len(CbuffHeld)
          /\ CbuffHeld' = <<>> => cbuffAstray' = FALSE
      <4>1. num \in Nat  BY CbuffAssumption
      <4> QED  BY <2>4, <4>1, ReadTakes
    <3>2. Len(SubSeq(CbuffHeld, 1, n)) = n /\ Len(rest) = Len(CbuffHeld) - n
      <4> HIDE DEF n
      <4>1. CbuffHeld \in Seq(CBUFF_BYTES \cup {0})  BY HeldIs
      <4> QED  BY <3>1, <4>1
    <3>3. ByteQ!Given(num) = SubSeq(CbuffHeld, 1, n)  BY DEF ByteQ!Given, ByteQ!Min, Min
    <3>4. ByteQ!Kept(num) = rest
      <4> HIDE DEF n
      <4> QED  BY <3>2, <3>3 DEF ByteQ!Kept
    <3> HIDE DEF n, rest
    <3>5. ByteQ!Read(num)  BY <3>1, <3>2, <3>3, <3>4 DEF ByteQ!Read
    <3> QED  BY <3>1, <3>5 DEF ByteQ!Next
  <2> QED  BY <2>1, <2>2, <2>3, <2>4 DEF CbuffNext
<1> QED  BY <1>1, <1>2, PTL DEF CbuffSpec, CbuffImplementsByteQueue, ByteQ!Spec, CbuffHeld

-----------------------------------------------------------------------------
(* VSA: the blocks tile the pool at every step of every call.              *)

VSAInv == /\ VSATypeOK /\ VSAPoolIsSound
          /\ vsaStep \in {"allocs", "loops"} => vsaRequest \in VSA_REQUESTS

LEMMA VSASizes ==
    /\ VSA_META \in {1, 2} /\ VSA_WORDS \in Nat /\ VSAEnd \in Nat /\ VSAEnd = VSA_WORDS - 1
    /\ \A bytes \in VSA_REQUESTS : /\ bytes \in Nat \ {0} /\ bytes # ALL_MEM
                                   /\ AlignSizeUp(bytes) \in Nat \ {0}
                                   /\ AlignSizeUp(bytes) * WORD_SIZE >= bytes
<1>1. /\ VSA_META \in {1, 2} /\ VSA_WORDS \in Nat /\ VSAEnd \in Nat /\ VSAEnd = VSA_WORDS - 1
  BY VSAAssumption DEF VSAEnd
<1>2. ASSUME NEW bytes \in VSA_REQUESTS
      PROVE  /\ bytes \in Nat \ {0} /\ bytes # ALL_MEM
             /\ AlignSizeUp(bytes) \in Nat \ {0} /\ AlignSizeUp(bytes) * WORD_SIZE >= bytes
  <2>1. bytes \in Nat \ {0}  BY VSAAssumption
  <2> QED  BY <2>1 DEF ALL_MEM, AlignSizeUp, WORD_SIZE
<1> QED  BY <1>1, <1>2

\* What there is to know of a header, and of the one after it.
LEMMA Headers ==
    ASSUME VSAInv, NEW a \in DOMAIN vsaHeaders
    PROVE  /\ a \in Nat /\ a < VSAEnd /\ vsaHeaders[a].size \in Nat \ {0} /\ vsaHeaders[a].free \in BOOLEAN
           /\ vsaHeaders[a] = [size |-> vsaHeaders[a].size, free |-> vsaHeaders[a].free]
           /\ GetNext(vsaHeaders, a) = a + VSA_META + vsaHeaders[a].size
           /\ GetNext(vsaHeaders, a) \in Nat /\ GetNext(vsaHeaders, a) > a + VSA_META
           /\ GetNext(vsaHeaders, a) <= VSAEnd
           /\ GetNext(vsaHeaders, a) \in DOMAIN vsaHeaders \cup {VSAEnd}
           /\ \A b \in DOMAIN vsaHeaders : b > a => b >= GetNext(vsaHeaders, a)
<1>1. /\ DOMAIN vsaHeaders \subseteq 0 .. VSAEnd - 1
      /\ vsaHeaders[a] \in [size : 1 .. VSA_WORDS, free : BOOLEAN]
      /\ GetNext(vsaHeaders, a) \in DOMAIN vsaHeaders \cup {VSAEnd}
      /\ \A b \in DOMAIN vsaHeaders : b > a => b >= GetNext(vsaHeaders, a)
  BY DEF VSAInv, VSATypeOK, VSAPoolIsSound, BlocksTile
<1>2. a \in Nat /\ a < VSAEnd /\ vsaHeaders[a].size \in Nat \ {0} /\ vsaHeaders[a].free \in BOOLEAN
      /\ vsaHeaders[a] = [size |-> vsaHeaders[a].size, free |-> vsaHeaders[a].free]
  BY <1>1, VSASizes
<1>3. GetNext(vsaHeaders, a) = a + VSA_META + vsaHeaders[a].size  BY DEF GetNext
<1>4. GetNext(vsaHeaders, a) \in Nat /\ GetNext(vsaHeaders, a) > a + VSA_META  BY <1>2, <1>3, VSASizes
<1>5. GetNext(vsaHeaders, a) <= VSAEnd  BY <1>1, <1>4, VSASizes
<1> QED  BY <1>1, <1>2, <1>3, <1>4, <1>5

\* A block ends no higher than its pool: its size is one of the type's.
LEMMA SizeFits ==
    ASSUME NEW a \in Nat, NEW size \in Nat \ {0}, a + VSA_META + size <= VSAEnd PROVE size \in 1 .. VSA_WORDS
BY VSASizes

LEMMA HeaderTyped ==
    ASSUME NEW size \in 1 .. VSA_WORDS, NEW free \in BOOLEAN
    PROVE  [size |-> size, free |-> free] \in [size : 1 .. VSA_WORDS, free : BOOLEAN]
OBVIOUS

\* A header with another size, and one with another free bit.
LEMMA Resized ==
    ASSUME NEW h, h = [size |-> h.size, free |-> h.free], NEW size
    PROVE  [h EXCEPT !.size = size] = [size |-> size, free |-> h.free]
<1>1. [[size |-> h.size, free |-> h.free] EXCEPT !.size = size] = [size |-> size, free |-> h.free]
  OBVIOUS
<1> QED  BY <1>1

LEMMA Refreed ==
    ASSUME VSAInv, NEW a \in DOMAIN vsaHeaders, NEW free \in BOOLEAN,
           vsaHeaders' = [vsaHeaders EXCEPT ![a].free = free]
    PROVE  /\ DOMAIN vsaHeaders' = DOMAIN vsaHeaders
           /\ \A b \in DOMAIN vsaHeaders : /\ vsaHeaders'[b].size = vsaHeaders[b].size
                                          /\ vsaHeaders'[b] \in [size : 1 .. VSA_WORDS, free : BOOLEAN]
           /\ \A b \in DOMAIN vsaHeaders \ {a} : vsaHeaders'[b] = vsaHeaders[b]
           /\ vsaHeaders'[a] = [size |-> vsaHeaders[a].size, free |-> free]
<1>1. \A b \in DOMAIN vsaHeaders : vsaHeaders[b] \in [size : 1 .. VSA_WORDS, free : BOOLEAN]
  BY DEF VSAInv, VSATypeOK
<1>2. DOMAIN vsaHeaders' = DOMAIN vsaHeaders /\ vsaHeaders'[a] = [vsaHeaders[a] EXCEPT !.free = free]
      /\ \A b \in DOMAIN vsaHeaders \ {a} : vsaHeaders'[b] = vsaHeaders[b]
  OBVIOUS
<1>3. vsaHeaders[a].size \in 1 .. VSA_WORDS
      /\ vsaHeaders[a] = [size |-> vsaHeaders[a].size, free |-> vsaHeaders[a].free]
  BY <1>1
<1>4. vsaHeaders'[a] = [size |-> vsaHeaders[a].size, free |-> free]
  <2>1. [[size |-> vsaHeaders[a].size, free |-> vsaHeaders[a].free] EXCEPT !.free = free]
            = [size |-> vsaHeaders[a].size, free |-> free]
    OBVIOUS
  <2> QED  BY <1>2, <1>3, <2>1
<1>5. vsaHeaders'[a] \in [size : 1 .. VSA_WORDS, free : BOOLEAN] /\ vsaHeaders'[a].size = vsaHeaders[a].size
  BY <1>3, <1>4
<1>6. ASSUME NEW b \in DOMAIN vsaHeaders
      PROVE  vsaHeaders'[b].size = vsaHeaders[b].size /\ vsaHeaders'[b] \in [size : 1 .. VSA_WORDS, free : BOOLEAN]
  <2>1. CASE b = a  BY <1>5, <2>1
  <2>2. CASE b # a  BY <1>1, <1>2, <2>2
  <2> QED  BY <2>1, <2>2
<1> QED  BY <1>2, <1>4, <1>6

LEMMA VSABegins == VSAInit => VSAInv
<1> SUFFICES ASSUME VSAInit PROVE VSAInv  OBVIOUS
<1>1. /\ DOMAIN vsaHeaders = {0} /\ vsaHeaders[0] = [size |-> VSA_WORDS - VSA_META - 1, free |-> TRUE]
      /\ vsaLive = {} /\ vsaStep = "returned" /\ vsaRunner = 0 /\ vsaRequest = ALL_MEM
  BY DEF VSAInit
<1>2. VSA_WORDS - VSA_META - 1 \in 1 .. VSA_WORDS /\ 0 \in 0 .. VSAEnd - 1
  BY VSAAssumption DEF VSAEnd
<1>3. GetNext(vsaHeaders, 0) = VSAEnd  BY <1>1, VSASizes DEF GetNext
<1>4. VSATypeOK
  <2>1. vsaHeaders[0] \in [size : 1 .. VSA_WORDS, free : BOOLEAN]  BY <1>1, <1>2
  <2> QED  BY <1>1, <1>2, <2>1 DEF VSATypeOK
<1>5. BlocksTile  BY <1>1, <1>3 DEF BlocksTile
<1>6. LiveBlocks  BY <1>1 DEF LiveBlocks
<1> QED  BY <1>1, <1>4, <1>5, <1>6 DEF VSAInv, VSAPoolIsSound

\* The steps that leave the pool as it is.
LEMMA PoolUnchanged ==
    ASSUME VSAInv, UNCHANGED <<vsaHeaders, vsaLive>>,
           vsaStep' \in {"returned", "defrags", "allocs", "loops"},
           vsaRunner' \in DOMAIN vsaHeaders \cup {VSAEnd}, vsaRequest' \in VSA_REQUESTS \cup {ALL_MEM},
           vsaStep' \in {"allocs", "loops"} => vsaRequest' \in VSA_REQUESTS
    PROVE  VSAInv'
<1>1. VSATypeOK'  BY DEF VSAInv, VSATypeOK
<1>2. BlocksTile'  BY DEF VSAInv, VSAPoolIsSound, BlocksTile, GetNext
<1>3. LiveBlocks'  BY DEF VSAInv, VSAPoolIsSound, LiveBlocks
<1> QED  BY <1>1, <1>2, <1>3 DEF VSAInv, VSAPoolIsSound

LEMMA VSACalledKeeps ==
    ASSUME VSAInv, NEW request \in VSA_REQUESTS \cup {ALL_MEM}, VSACalled(request) PROVE VSAInv'
<1>1. 0 \in DOMAIN vsaHeaders  BY DEF VSAInv, VSAPoolIsSound, BlocksTile
<1> QED  BY <1>1, PoolUnchanged DEF VSACalled

LEMMA WalksKeep ==
    VSAInv /\ (GetNextFreeBlock \/ DeFregGoesOn \/ DeFregEnds \/ VSAAllocNull \/ VSAAllocLoops) => VSAInv'
<1> SUFFICES ASSUME VSAInv PROVE GetNextFreeBlock \/ DeFregGoesOn \/ DeFregEnds \/ VSAAllocNull \/ VSAAllocLoops => VSAInv'
  OBVIOUS
<1>1. /\ 0 \in DOMAIN vsaHeaders /\ vsaRunner \in DOMAIN vsaHeaders \cup {VSAEnd}
      /\ vsaRequest \in VSA_REQUESTS \cup {ALL_MEM} /\ vsaStep \in {"returned", "defrags", "allocs", "loops"}
      /\ vsaStep \in {"allocs", "loops"} => vsaRequest \in VSA_REQUESTS
  BY DEF VSAInv, VSATypeOK, VSAPoolIsSound, BlocksTile
<1>2. vsaRunner # VSAEnd => GetNext(vsaHeaders, vsaRunner) \in DOMAIN vsaHeaders \cup {VSAEnd}
  BY <1>1, Headers
<1>3. CASE GetNextFreeBlock  BY <1>1, <1>2, <1>3, PoolUnchanged DEF GetNextFreeBlock
<1>4. CASE DeFregGoesOn  BY <1>1, <1>2, <1>4, PoolUnchanged DEF DeFregGoesOn, AtFreeBlock
<1>5. CASE DeFregEnds
  <2>1. UNCHANGED <<vsaHeaders, vsaLive>> /\ vsaRunner' = 0  BY <1>5 DEF DeFregEnds, VSAReturns
  <2>2. \/ vsaStep' = "returned" /\ vsaRequest' = ALL_MEM
        \/ vsaStep' = "allocs" /\ vsaRequest' = vsaRequest /\ vsaRequest # ALL_MEM
    BY <1>5 DEF DeFregEnds, VSAReturns
  <2> QED  BY <1>1, <2>1, <2>2, PoolUnchanged
<1>6. CASE VSAAllocNull  BY <1>1, <1>6, PoolUnchanged DEF VSAAllocNull, VSAReturns
<1>7. CASE VSAAllocLoops  BY <1>1, <1>7, PoolUnchanged DEF VSAAllocLoops, AtFreeBlock
<1> QED  BY <1>3, <1>4, <1>5, <1>6, <1>7

\* A block that merges takes in exactly the next one.
LEMMA MergeKeeps == VSAInv /\ DeFregMerges => VSAInv'
<1> SUFFICES ASSUME VSAInv, DeFregMerges PROVE VSAInv'  OBVIOUS
<1> DEFINE a == vsaRunner
           n == GetNext(vsaHeaders, a)
           m == GetNext(vsaHeaders, n)
<1>1. /\ a \in DOMAIN vsaHeaders /\ vsaHeaders[a].free /\ vsaStep = "defrags"
      /\ n \in DOMAIN vsaHeaders /\ vsaHeaders[n].free
      /\ UNCHANGED <<vsaLive, vsaStep, vsaRunner, vsaRequest>>
  <2>1. a \in DOMAIN vsaHeaders  BY DEF DeFregMerges, AtFreeBlock, VSAInv, VSATypeOK
  <2> QED  BY <2>1, Headers DEF DeFregMerges, AtFreeBlock, NextIsFree
<1>2. vsaHeaders' = [b \in DOMAIN vsaHeaders \ {n} |->
                        IF b = a THEN [vsaHeaders[a] EXCEPT !.size = @ + VSA_META + vsaHeaders[n].size] ELSE vsaHeaders[b]]
  BY DEF DeFregMerges, Merged
<1> HIDE DEF n
<1>3. /\ a \in Nat /\ n \in Nat /\ m \in Nat /\ n > a + VSA_META /\ m > n + VSA_META /\ m <= VSAEnd
      /\ n = a + VSA_META + vsaHeaders[a].size /\ m = n + VSA_META + vsaHeaders[n].size
      /\ vsaHeaders[a].size \in Nat \ {0} /\ vsaHeaders[n].size \in Nat \ {0} /\ VSA_META \in {1, 2}
      /\ vsaHeaders[a] = [size |-> vsaHeaders[a].size, free |-> vsaHeaders[a].free]
      /\ m \in DOMAIN vsaHeaders \cup {VSAEnd}
      /\ \A b \in DOMAIN vsaHeaders : (b > a => b >= n) /\ (b > n => b >= m)
  BY <1>1, Headers, VSASizes DEF n
<1> HIDE DEF m
<1>4. /\ DOMAIN vsaHeaders' = DOMAIN vsaHeaders \ {n} /\ a # n /\ a \in DOMAIN vsaHeaders'
      /\ vsaHeaders'[a] = [size |-> vsaHeaders[a].size + VSA_META + vsaHeaders[n].size, free |-> TRUE]
      /\ \A b \in DOMAIN vsaHeaders' \ {a} : vsaHeaders'[b] = vsaHeaders[b]
  <2>1. /\ DOMAIN vsaHeaders' = DOMAIN vsaHeaders \ {n} /\ a # n /\ a \in DOMAIN vsaHeaders'
        /\ \A b \in DOMAIN vsaHeaders' \ {a} : vsaHeaders'[b] = vsaHeaders[b]
    BY <1>1, <1>2, <1>3
  <2>2. vsaHeaders'[a] = [vsaHeaders[a] EXCEPT !.size = vsaHeaders[a].size + VSA_META + vsaHeaders[n].size]
    BY <1>1, <1>2, <2>1
  <2>3. vsaHeaders'[a] = [size |-> vsaHeaders[a].size + VSA_META + vsaHeaders[n].size, free |-> vsaHeaders[a].free]
    BY <1>3, <2>2, Resized
  <2>4. vsaHeaders[a].free = TRUE  BY <1>1, Headers
  <2> QED  BY <2>1, <2>3, <2>4
<1>5. GetNext(vsaHeaders', a) = m  BY <1>3, <1>4 DEF GetNext
<1>6. \A b \in DOMAIN vsaHeaders' \ {a} : GetNext(vsaHeaders', b) = GetNext(vsaHeaders, b)
  BY <1>4 DEF GetNext
<1>7. ASSUME NEW b \in DOMAIN vsaHeaders' \ {a} PROVE GetNext(vsaHeaders, b) # n
  <2>1. b \in DOMAIN vsaHeaders /\ b # n  BY <1>4
  <2>2. b \in Nat /\ GetNext(vsaHeaders, b) \in Nat /\ GetNext(vsaHeaders, b) > b
        /\ (a > b => a >= GetNext(vsaHeaders, b))
    BY <1>1, <2>1, Headers, VSASizes
  <2> QED  BY <1>3, <2>1, <2>2
<1>8. BlocksTile'
  <2>1. 0 \in DOMAIN vsaHeaders'
    BY <1>3, <1>4 DEF VSAInv, VSAPoolIsSound, BlocksTile
  <2>2. ASSUME NEW b \in DOMAIN vsaHeaders'
        PROVE  /\ GetNext(vsaHeaders', b) \in DOMAIN vsaHeaders' \cup {VSAEnd}
               /\ \A c \in DOMAIN vsaHeaders' : c > b => c >= GetNext(vsaHeaders', b)
    <3>1. CASE b = a
      <4>1. m # n  BY <1>3
      <4>2. \A c \in DOMAIN vsaHeaders' : c \in Nat /\ c # n  BY <1>4, Headers
      <4> QED  BY <1>3, <1>4, <1>5, <3>1, <4>1, <4>2
    <3>2. CASE b # a
      <4>1. b \in DOMAIN vsaHeaders  BY <1>4
      <4> QED  BY <1>4, <1>6, <1>7, <3>2, <4>1, Headers
    <3> QED  BY <3>1, <3>2
  <2> QED  BY <2>1, <2>2 DEF BlocksTile
<1>9. VSATypeOK'
  <2>1. vsaHeaders'[a] \in [size : 1 .. VSA_WORDS, free : BOOLEAN]
    <3>1. /\ vsaHeaders[a].size + VSA_META + vsaHeaders[n].size \in Nat \ {0}
          /\ a + VSA_META + (vsaHeaders[a].size + VSA_META + vsaHeaders[n].size) <= VSAEnd
      BY <1>3
    <3>2. vsaHeaders[a].size + VSA_META + vsaHeaders[n].size \in 1 .. VSA_WORDS  BY <1>3, <3>1, SizeFits
    <3> QED  BY <1>4, <3>2
  <2>2. \A b \in DOMAIN vsaHeaders' : vsaHeaders'[b] \in [size : 1 .. VSA_WORDS, free : BOOLEAN]
    <3>1. \A b \in DOMAIN vsaHeaders : vsaHeaders[b] \in [size : 1 .. VSA_WORDS, free : BOOLEAN]
      BY DEF VSAInv, VSATypeOK
    <3> QED  BY <1>4, <2>1, <3>1
  <2> QED  BY <1>1, <1>4, <2>2 DEF VSAInv, VSATypeOK
<1>10. LiveBlocks'
  <2>1. ASSUME NEW l \in vsaLive
        PROVE  /\ l.at - VSA_META \in DOMAIN vsaHeaders' /\ ~vsaHeaders'[l.at - VSA_META].free
               /\ vsaHeaders'[l.at - VSA_META].size * WORD_SIZE >= l.bytes
    <3>1. /\ l.at - VSA_META \in DOMAIN vsaHeaders /\ ~vsaHeaders[l.at - VSA_META].free
          /\ vsaHeaders[l.at - VSA_META].size * WORD_SIZE >= l.bytes
      BY DEF VSAInv, VSAPoolIsSound, LiveBlocks
    <3>2. l.at - VSA_META # n /\ l.at - VSA_META # a  BY <1>1, <3>1
    <3> QED  BY <1>4, <3>1, <3>2
  <2>2. ASSUME NEW b \in DOMAIN vsaHeaders', ~vsaHeaders'[b].free PROVE \E l \in vsaLive : l.at = b + VSA_META
    <3>1. b # a  BY <1>4, <2>2
    <3>2. b \in DOMAIN vsaHeaders /\ ~vsaHeaders[b].free  BY <1>4, <2>2, <3>1
    <3> QED  BY <3>2 DEF VSAInv, VSAPoolIsSound, LiveBlocks
  <2>3. vsaLive' = vsaLive /\ \A l, k \in vsaLive : l.at = k.at => l = k
    BY <1>1 DEF VSAInv, VSAPoolIsSound, LiveBlocks
  <2> QED  BY <2>1, <2>2, <2>3 DEF LiveBlocks
<1> QED  BY <1>1, <1>8, <1>9, <1>10 DEF VSAInv, VSAPoolIsSound

\* The free block at the runner of VSAAlloc.
LEMMA AllocsAt ==
    ASSUME VSAInv, AtFreeBlock("allocs")
    PROVE  /\ vsaRunner \in DOMAIN vsaHeaders /\ vsaHeaders[vsaRunner].free /\ vsaRequest \in VSA_REQUESTS
           /\ vsaRunner \in Nat /\ \A l \in vsaLive : l.at # vsaRunner + VSA_META
           /\ 0 \in DOMAIN vsaHeaders
<1>1. vsaRunner \in DOMAIN vsaHeaders /\ vsaHeaders[vsaRunner].free /\ vsaRequest \in VSA_REQUESTS
  BY DEF VSAInv, VSATypeOK, AtFreeBlock
<1>2. vsaRunner \in Nat /\ VSA_META \in Nat  BY <1>1, Headers, VSASizes
<1>3. ASSUME NEW l \in vsaLive, l.at = vsaRunner + VSA_META PROVE FALSE
  <2>1. ~vsaHeaders[l.at - VSA_META].free  BY DEF VSAInv, VSAPoolIsSound, LiveBlocks
  <2>2. l.at - VSA_META = vsaRunner  BY <1>2, <1>3
  <2> QED  BY <1>1, <2>1, <2>2
<1> QED  BY <1>1, <1>2, <1>3 DEF VSAInv, VSAPoolIsSound, BlocksTile

\* What the caller gets is a block of its own.
LEMMA AllocatedIsLive ==
    ASSUME VSAInv, AtFreeBlock("allocs"), vsaLive' = vsaLive \cup Allocated,
           DOMAIN vsaHeaders \subseteq DOMAIN vsaHeaders',
           ~vsaHeaders'[vsaRunner].free, vsaHeaders'[vsaRunner].size * WORD_SIZE >= vsaRequest,
           \A b \in DOMAIN vsaHeaders \ {vsaRunner} : vsaHeaders'[b] = vsaHeaders[b],
           \A b \in DOMAIN vsaHeaders' \ DOMAIN vsaHeaders : vsaHeaders'[b].free
    PROVE  LiveBlocks' /\ \A l \in vsaLive' : l.at \in 0 .. VSAEnd /\ l.bytes \in VSA_REQUESTS
<1> DEFINE new == [at |-> vsaRunner + VSA_META, bytes |-> vsaRequest]
<1>1. /\ vsaRunner \in DOMAIN vsaHeaders /\ vsaHeaders[vsaRunner].free /\ vsaRequest \in VSA_REQUESTS
      /\ vsaRunner \in Nat /\ \A l \in vsaLive : l.at # vsaRunner + VSA_META
  BY AllocsAt
<1>2. vsaLive' = vsaLive \cup {new} /\ new.at = vsaRunner + VSA_META /\ new.bytes = vsaRequest
      /\ new.at - VSA_META = vsaRunner
  BY <1>1, VSASizes DEF Allocated
<1> HIDE DEF new
<1>3. ASSUME NEW l \in vsaLive'
      PROVE  /\ l.at - VSA_META \in DOMAIN vsaHeaders' /\ ~vsaHeaders'[l.at - VSA_META].free
             /\ vsaHeaders'[l.at - VSA_META].size * WORD_SIZE >= l.bytes
  <2>1. CASE l = new  BY <1>1, <1>2, <2>1
  <2>2. CASE l \in vsaLive
    <3>1. /\ l.at - VSA_META \in DOMAIN vsaHeaders /\ ~vsaHeaders[l.at - VSA_META].free
          /\ vsaHeaders[l.at - VSA_META].size * WORD_SIZE >= l.bytes
      BY <2>2 DEF VSAInv, VSAPoolIsSound, LiveBlocks
    <3>2. l.at - VSA_META # vsaRunner  BY <1>1, <3>1
    <3> QED  BY <3>1, <3>2
  <2> QED  BY <1>2, <2>1, <2>2
<1>4. \A l, k \in vsaLive' : l.at = k.at => l = k
  BY <1>1, <1>2 DEF VSAInv, VSAPoolIsSound, LiveBlocks
<1>5. ASSUME NEW b \in DOMAIN vsaHeaders', ~vsaHeaders'[b].free PROVE \E l \in vsaLive' : l.at = b + VSA_META
  <2>1. CASE b = vsaRunner  BY <1>2, <2>1
  <2>2. CASE b # vsaRunner
    <3>1. b \in DOMAIN vsaHeaders /\ ~vsaHeaders[b].free  BY <1>5, <2>2
    <3> QED  BY <1>2, <3>1 DEF VSAInv, VSAPoolIsSound, LiveBlocks
  <2> QED  BY <2>1, <2>2
<1>6. new.at \in 0 .. VSAEnd
  <2>1. vsaRunner \in Nat /\ GetNext(vsaHeaders, vsaRunner) > vsaRunner + VSA_META
        /\ GetNext(vsaHeaders, vsaRunner) <= VSAEnd /\ GetNext(vsaHeaders, vsaRunner) \in Nat
    BY <1>1, Headers
  <2> QED  BY <1>2, <2>1, VSASizes
<1> QED  BY <1>1, <1>2, <1>3, <1>4, <1>5, <1>6 DEF LiveBlocks, VSAInv, VSATypeOK

LEMMA WholeKeeps == VSAInv /\ VSAAllocWhole => VSAInv'
<1> SUFFICES ASSUME VSAInv, VSAAllocWhole PROVE VSAInv'  OBVIOUS
<1> DEFINE a == vsaRunner
<1>1. /\ AtFreeBlock("allocs") /\ Excess \in 0 .. VSA_META
      /\ vsaHeaders' = [vsaHeaders EXCEPT ![a].free = FALSE] /\ vsaLive' = vsaLive \cup Allocated
      /\ vsaStep' = "returned" /\ vsaRunner' = 0 /\ vsaRequest' = ALL_MEM
  BY DEF VSAAllocWhole, VSAReturns
<1>2. /\ a \in DOMAIN vsaHeaders /\ vsaHeaders[a].free /\ vsaRequest \in VSA_REQUESTS
      /\ 0 \in DOMAIN vsaHeaders
  BY <1>1, AllocsAt
<1>3. /\ DOMAIN vsaHeaders' = DOMAIN vsaHeaders
      /\ \A b \in DOMAIN vsaHeaders : vsaHeaders'[b].size = vsaHeaders[b].size
      /\ \A b \in DOMAIN vsaHeaders \ {a} : vsaHeaders'[b] = vsaHeaders[b]
      /\ vsaHeaders'[a] = [size |-> vsaHeaders[a].size, free |-> FALSE]
      /\ \A b \in DOMAIN vsaHeaders : vsaHeaders'[b] \in [size : 1 .. VSA_WORDS, free : BOOLEAN]
  BY <1>1, <1>2, Refreed
<1>4. vsaHeaders'[a].size * WORD_SIZE >= vsaRequest
  <2>1. vsaHeaders[a].size >= AlignSizeUp(vsaRequest) /\ vsaHeaders[a].size \in Nat
    BY <1>1, <1>2, Headers, VSASizes DEF Excess
  <2> QED  BY <1>2, <1>3, <2>1, VSASizes DEF WORD_SIZE
<1>5. LiveBlocks' /\ \A l \in vsaLive' : l.at \in 0 .. VSAEnd /\ l.bytes \in VSA_REQUESTS
  BY <1>1, <1>3, <1>4, AllocatedIsLive
<1>6. BlocksTile'  BY <1>3 DEF VSAInv, VSAPoolIsSound, BlocksTile, GetNext
<1>7. VSATypeOK'  BY <1>1, <1>2, <1>3, <1>5 DEF VSAInv, VSATypeOK
<1> QED  BY <1>1, <1>5, <1>6, <1>7 DEF VSAInv, VSAPoolIsSound

LEMMA SplitKeeps == VSAInv /\ VSAAllocSplit => VSAInv'
<1> SUFFICES ASSUME VSAInv, VSAAllocSplit PROVE VSAInv'  OBVIOUS
<1> DEFINE a == vsaRunner
           words == AlignSizeUp(vsaRequest)
           rest == a + VSA_META + words
           left == Excess - VSA_META
           n == GetNext(vsaHeaders, a)
<1>1. /\ AtFreeBlock("allocs") /\ Excess > VSA_META
      /\ vsaHeaders' = [b \in DOMAIN vsaHeaders \cup {rest} |->
                            IF b = a THEN [size |-> words, free |-> FALSE]
                            ELSE IF b = rest THEN [size |-> left, free |-> TRUE] ELSE vsaHeaders[b]]
      /\ vsaLive' = vsaLive \cup Allocated
      /\ vsaStep' = "returned" /\ vsaRunner' = 0 /\ vsaRequest' = ALL_MEM
  BY DEF VSAAllocSplit, VSAReturns
<1>2. /\ a \in DOMAIN vsaHeaders /\ vsaHeaders[a].free /\ vsaRequest \in VSA_REQUESTS
      /\ 0 \in DOMAIN vsaHeaders
  BY <1>1, AllocsAt
<1>3. /\ a \in Nat /\ n = a + VSA_META + vsaHeaders[a].size /\ n \in Nat /\ n <= VSAEnd
      /\ n \in DOMAIN vsaHeaders \cup {VSAEnd} /\ \A b \in DOMAIN vsaHeaders : b > a => b >= n
      /\ vsaHeaders[a].size \in Nat /\ VSA_META \in {1, 2} /\ words \in Nat \ {0} /\ VSAEnd \in Nat
      /\ words * WORD_SIZE >= vsaRequest
  BY <1>2, Headers, VSASizes
<1>4. /\ left \in Nat \ {0} /\ rest \in Nat /\ rest > a /\ rest + VSA_META + left = n /\ rest < n
  BY <1>1, <1>3 DEF Excess
<1>5. rest \notin DOMAIN vsaHeaders  BY <1>3, <1>4
<1> HIDE DEF words, rest, left, n
<1>6. /\ DOMAIN vsaHeaders' = DOMAIN vsaHeaders \cup {rest}
      /\ vsaHeaders'[a] = [size |-> words, free |-> FALSE]
      /\ vsaHeaders'[rest] = [size |-> left, free |-> TRUE]
      /\ \A b \in DOMAIN vsaHeaders \ {a} : vsaHeaders'[b] = vsaHeaders[b]
  BY <1>1, <1>2, <1>5
<1>7. LiveBlocks' /\ \A l \in vsaLive' : l.at \in 0 .. VSAEnd /\ l.bytes \in VSA_REQUESTS
  <2>1. vsaHeaders'[a].size * WORD_SIZE >= vsaRequest /\ ~vsaHeaders'[a].free  BY <1>3, <1>6
  <2>2. \A b \in DOMAIN vsaHeaders' \ DOMAIN vsaHeaders : vsaHeaders'[b].free  BY <1>6
  <2> QED  BY <1>1, <1>6, <2>1, <2>2, AllocatedIsLive
<1>8. GetNext(vsaHeaders', a) = rest /\ GetNext(vsaHeaders', rest) = n
  BY <1>3, <1>4, <1>6 DEF GetNext, rest
<1>9. \A b \in DOMAIN vsaHeaders \ {a} : GetNext(vsaHeaders', b) = GetNext(vsaHeaders, b)
  BY <1>6 DEF GetNext
<1>10. BlocksTile'
  <2>1. ASSUME NEW b \in DOMAIN vsaHeaders'
        PROVE  /\ GetNext(vsaHeaders', b) \in DOMAIN vsaHeaders' \cup {VSAEnd}
               /\ \A c \in DOMAIN vsaHeaders' : c > b => c >= GetNext(vsaHeaders', b)
    <3>1. \A c \in DOMAIN vsaHeaders : c \in Nat  BY Headers
    <3>2. CASE b = a
      <4>1. \A c \in DOMAIN vsaHeaders' : c > a => c >= rest  BY <1>3, <1>4, <1>6, <3>1
      <4> QED  BY <1>6, <1>8, <3>2, <4>1
    <3>3. CASE b = rest
      <4>1. \A c \in DOMAIN vsaHeaders' : c > rest => c >= n  BY <1>3, <1>4, <1>6, <3>1
      <4> QED  BY <1>3, <1>6, <1>8, <3>3, <4>1
    <3>4. CASE b \in DOMAIN vsaHeaders /\ b # a
      <4>1. /\ GetNext(vsaHeaders, b) \in DOMAIN vsaHeaders \cup {VSAEnd} /\ b \in Nat
            /\ GetNext(vsaHeaders, b) \in Nat
            /\ \A c \in DOMAIN vsaHeaders : c > b => c >= GetNext(vsaHeaders, b)
        BY <3>4, Headers
      <4>2. rest > b => rest >= GetNext(vsaHeaders, b)
        <5>1. b > a => b >= n  BY <1>3, <3>4
        <5>2. b < a => a >= GetNext(vsaHeaders, b)  BY <1>2, <1>3, <4>1
        <5> QED  BY <1>3, <1>4, <3>4, <4>1, <5>1, <5>2
      <4> QED  BY <1>6, <1>9, <3>4, <4>1, <4>2
    <3> QED  BY <1>6, <3>2, <3>3, <3>4
  <2> QED  BY <1>2, <1>6, <2>1 DEF BlocksTile
<1>11. VSATypeOK'
  <2>1. words \in 1 .. VSA_WORDS /\ left \in 1 .. VSA_WORDS
    <3>1. a + VSA_META + words <= VSAEnd /\ rest + VSA_META + left <= VSAEnd  BY <1>3, <1>4 DEF rest
    <3> QED  BY <1>3, <1>4, <3>1, SizeFits
  <2>2. ASSUME NEW b \in DOMAIN vsaHeaders' PROVE vsaHeaders'[b] \in [size : 1 .. VSA_WORDS, free : BOOLEAN]
    <3>0. /\ [size |-> words, free |-> FALSE] \in [size : 1 .. VSA_WORDS, free : BOOLEAN]
          /\ [size |-> left, free |-> TRUE] \in [size : 1 .. VSA_WORDS, free : BOOLEAN]
      BY <2>1, HeaderTyped
    <3>1. CASE b = a  BY <1>6, <3>0, <3>1
    <3>2. CASE b = rest  BY <1>6, <3>0, <3>2
    <3>3. CASE b \in DOMAIN vsaHeaders \ {a}  BY <1>6, <3>3 DEF VSAInv, VSATypeOK
    <3> QED  BY <1>6, <3>1, <3>2, <3>3
  <2>3. DOMAIN vsaHeaders' \subseteq 0 .. VSAEnd - 1
    <3>1. rest \in 0 .. VSAEnd - 1  BY <1>3, <1>4
    <3> QED  BY <1>6, <3>1 DEF VSAInv, VSATypeOK
  <2> QED  BY <1>1, <1>2, <1>6, <1>7, <2>2, <2>3 DEF VSATypeOK
<1> QED  BY <1>1, <1>7, <1>10, <1>11 DEF VSAInv, VSAPoolIsSound

LEMMA VSAFreeKeeps ==
    ASSUME VSAInv, NEW allocation \in vsaLive, VSAFree(allocation) PROVE VSAInv'
<1> DEFINE a == allocation.at - VSA_META
<1>1. /\ vsaStep = "returned" /\ vsaHeaders' = [vsaHeaders EXCEPT ![a].free = TRUE]
      /\ vsaLive' = vsaLive \ {allocation} /\ UNCHANGED <<vsaStep, vsaRunner, vsaRequest>>
  BY DEF VSAFree
<1>2. /\ a \in DOMAIN vsaHeaders /\ \A l, k \in vsaLive : l.at = k.at => l = k
      /\ allocation.at \in Nat
  BY VSASizes DEF VSAInv, VSATypeOK, VSAPoolIsSound, LiveBlocks
<1>3. /\ DOMAIN vsaHeaders' = DOMAIN vsaHeaders
      /\ \A b \in DOMAIN vsaHeaders : vsaHeaders'[b].size = vsaHeaders[b].size
      /\ \A b \in DOMAIN vsaHeaders \ {a} : vsaHeaders'[b] = vsaHeaders[b]
      /\ vsaHeaders'[a] = [size |-> vsaHeaders[a].size, free |-> TRUE]
      /\ \A b \in DOMAIN vsaHeaders : vsaHeaders'[b] \in [size : 1 .. VSA_WORDS, free : BOOLEAN]
  BY <1>1, <1>2, Refreed
<1>4. BlocksTile'  BY <1>3 DEF VSAInv, VSAPoolIsSound, BlocksTile, GetNext
<1>5. VSATypeOK'  BY <1>1, <1>3 DEF VSAInv, VSATypeOK
<1>6. LiveBlocks'
  <2>1. ASSUME NEW l \in vsaLive'
        PROVE  /\ l.at - VSA_META \in DOMAIN vsaHeaders' /\ ~vsaHeaders'[l.at - VSA_META].free
               /\ vsaHeaders'[l.at - VSA_META].size * WORD_SIZE >= l.bytes
    <3>1. /\ l.at - VSA_META \in DOMAIN vsaHeaders /\ ~vsaHeaders[l.at - VSA_META].free
          /\ vsaHeaders[l.at - VSA_META].size * WORD_SIZE >= l.bytes
      BY <1>1 DEF VSAInv, VSAPoolIsSound, LiveBlocks
    <3>2. l.at \in Nat /\ l \in vsaLive /\ l # allocation
      BY <1>1, VSASizes DEF VSAInv, VSATypeOK
    <3>3. l.at - VSA_META # a  BY <1>2, <3>2, VSASizes
    <3> QED  BY <1>3, <3>1, <3>3
  <2>2. ASSUME NEW b \in DOMAIN vsaHeaders', ~vsaHeaders'[b].free PROVE \E l \in vsaLive' : l.at = b + VSA_META
    <3>1. b # a  BY <1>3, <2>2
    <3>2. b \in DOMAIN vsaHeaders /\ ~vsaHeaders[b].free /\ b \in Nat  BY <1>3, <2>2, <3>1, Headers
    <3>3. PICK l \in vsaLive : l.at = b + VSA_META  BY <3>2 DEF VSAInv, VSAPoolIsSound, LiveBlocks
    <3>4. l # allocation  BY <3>1, <3>2, <3>3, VSASizes
    <3> QED  BY <1>1, <3>3, <3>4
  <2> QED  BY <1>1, <1>2, <2>1, <2>2 DEF LiveBlocks
<1> QED  BY <1>1, <1>4, <1>5, <1>6 DEF VSAInv, VSAPoolIsSound

LEMMA VSAStepKeeps == VSAInv /\ [VSANext]_vsaVars => VSAInv'
<1> SUFFICES ASSUME VSAInv, [VSANext]_vsaVars PROVE VSAInv'  OBVIOUS
<1>1. CASE UNCHANGED vsaVars
  BY <1>1, PoolUnchanged DEF vsaVars, VSAInv, VSATypeOK
<1> QED  BY <1>1, VSACalledKeeps, WalksKeep, MergeKeeps, WholeKeeps, SplitKeeps, VSAFreeKeeps DEF VSANext

-----------------------------------------------------------------------------
(* FSA: where the chunks are.                                              *)

LEMMA AlignedSize ==
    ASSUME NEW size \in Nat \ {0}
    PROVE  /\ AllignedChunkSize(size) \in Nat \ {0} /\ AllignedChunkSize(size) >= size
           /\ \E k \in Nat : AllignedChunkSize(size) = 8 * k
<1> DEFINE q == size \div 8
           r == size % 8
<1>0. q \in Int /\ r \in 0 .. 7 /\ size = 8 * q + r  OBVIOUS
<1>1. q \in Nat /\ r \in 0 .. 7 /\ size = 8 * q + r /\ size % 8 = r
  <2> HIDE DEF q, r
  <2>1. q \in Nat  BY <1>0
  <2> QED  BY <1>0, <2>1 DEF r
<1> HIDE DEF q, r
<1>2. AllignedChunkSize(size) = IF r = 0 THEN size ELSE 8 + size - r
  BY <1>1 DEF AllignedChunkSize, Sizeof, r
<1>3. CASE r = 0  BY <1>1, <1>2, <1>3
<1>4. CASE r # 0
  <2>1. AllignedChunkSize(size) = 8 * (q + 1) /\ q + 1 \in Nat  BY <1>1, <1>2, <1>4
  <2>2. 8 * (q + 1) \in Nat \ {0} /\ 8 * (q + 1) >= size  BY <1>1
  <2> QED  BY <2>1, <2>2
<1> QED  BY <1>3, <1>4

LEMMA MoreTimes ==
    ASSUME NEW a \in Nat, NEW i \in Nat, NEW j \in Nat, i < j PROVE i * a + a <= j * a
<1>1. PICK d \in Nat : j = i + 1 + d
  <2>1. j - i - 1 \in Nat /\ j = i + 1 + (j - i - 1)  OBVIOUS
  <2> QED  BY <2>1
<1>2. j * a = i * a + a + d * a  BY <1>1
<1>3. d * a \in Nat /\ i * a \in Nat  OBVIOUS
<1> QED  BY <1>2, <1>3

LEMMA TimesAligned ==
    ASSUME NEW a \in Nat, NEW k \in Nat, a = 8 * k, NEW i \in Nat PROVE i * a \in Nat /\ (i * a + 8) % 8 = 0
<1>1. i * a = 8 * (i * k) /\ i * k \in Nat  OBVIOUS
<1>2. ASSUME NEW m \in Nat PROVE 8 * m \in Nat /\ (8 * m + 8) % 8 = 0  OBVIOUS
<1> QED  BY <1>1, <1>2

\* The addresses of the chunks: aligned, past the head of the list, a chunk apart.
LEMMA Addresses ==
    ASSUME NEW size \in Nat \ {0}
    PROVE  /\ \A i \in Nat : /\ FSAAddress(size, i) \in Nat /\ FSAAddress(size, i) % Sizeof = 0
                             /\ FSAAddress(size, i) >= Sizeof
                             /\ FSAAddress(size, i + 1) = FSAAddress(size, i) + AllignedChunkSize(size)
           /\ \A i, j \in Nat : i < j => FSAAddress(size, i) + AllignedChunkSize(size) <= FSAAddress(size, j)
<1> DEFINE a == AllignedChunkSize(size)
<1>1. a \in Nat \ {0} /\ \E k \in Nat : a = 8 * k  BY AlignedSize
<1> HIDE DEF a
<1>2. ASSUME NEW i \in Nat
      PROVE  /\ i * a + 8 \in Nat /\ (i * a + 8) % 8 = 0 /\ i * a + 8 >= 8
             /\ (i + 1) * a + 8 = i * a + 8 + a
  <2>1. i * a \in Nat /\ (i * a + 8) % 8 = 0  BY <1>1, TimesAligned
  <2>2. (i + 1) * a = i * a + a  BY <1>1
  <2> QED  BY <1>1, <2>1, <2>2
<1>3. ASSUME NEW i \in Nat, NEW j \in Nat, i < j PROVE i * a + 8 + a <= j * a + 8
  <2>1. i * a + a <= j * a /\ i * a \in Nat /\ j * a \in Nat  BY <1>1, <1>3, MoreTimes
  <2> QED  BY <1>1, <2>1
<1> QED  BY <1>2, <1>3 DEF FSAAddress, Sizeof, a

LEMMA AddressesDiffer ==
    ASSUME NEW size \in Nat \ {0}, NEW i \in Nat, NEW j \in Nat, FSAAddress(size, i) = FSAAddress(size, j)
    PROVE  i = j
<1>1. AllignedChunkSize(size) \in Nat \ {0} /\ FSAAddress(size, i) \in Nat  BY AlignedSize, Addresses
<1>2. ASSUME i < j PROVE FALSE
  <2>1. FSAAddress(size, i) + AllignedChunkSize(size) <= FSAAddress(size, j)  BY <1>2, Addresses
  <2> QED  BY <1>1, <2>1
<1>3. ASSUME j < i PROVE FALSE
  <2>1. FSAAddress(size, j) + AllignedChunkSize(size) <= FSAAddress(size, i)  BY <1>3, Addresses
  <2> QED  BY <1>1, <2>1
<1> QED  BY <1>2, <1>3

LEMMA ChunksAreApart == FSATypeOK => ChunksApart
<1> SUFFICES ASSUME FSATypeOK PROVE ChunksApart  OBVIOUS
<1> DEFINE size == fsaChunkSize
           A == AllignedChunkSize(size)
<1>1. size \in Nat \ {0} /\ NUM_CHUNKS \in Nat \ {0}  BY FSAAssumption DEF FSATypeOK
<1>2. A \in Nat \ {0} /\ A >= size  BY <1>1, AlignedSize
<1>3. FSAAddress(size, NUM_CHUNKS) = FSASuggestSize(size)
  <2>1. NUM_CHUNKS * A = A * NUM_CHUNKS  BY <1>1, <1>2
  <2> QED  BY <2>1 DEF FSAAddress, FSASuggestSize
<1> HIDE DEF size, A
<1>4. ASSUME NEW i \in 0 .. NUM_CHUNKS - 1
      PROVE  /\ FSAAddress(size, i) % Sizeof = 0 /\ FSAAddress(size, i) >= Sizeof
             /\ FSAAddress(size, i) + size <= FSASuggestSize(size)
  <2>1. i \in Nat /\ i < NUM_CHUNKS  BY <1>1
  <2>2. FSAAddress(size, i) + A <= FSAAddress(size, NUM_CHUNKS) /\ FSAAddress(size, i) \in Nat
        /\ FSAAddress(size, NUM_CHUNKS) \in Nat
    BY <1>1, <2>1, Addresses DEF A
  <2> QED  BY <1>1, <1>2, <1>3, <2>1, <2>2, Addresses
<1>5. ASSUME NEW i \in 0 .. NUM_CHUNKS - 1, NEW j \in 0 .. NUM_CHUNKS - 1,
             FSAAddress(size, j) > FSAAddress(size, i)
      PROVE  FSAAddress(size, i) + size <= FSAAddress(size, j)
  <2>1. i \in Nat /\ j \in Nat /\ FSAAddress(size, i) \in Nat /\ FSAAddress(size, j) \in Nat
    <3>1. i \in Nat /\ j \in Nat  BY <1>1
    <3> QED  BY <1>1, <3>1, Addresses
  <2>2. j < i => FSAAddress(size, j) + A <= FSAAddress(size, i)  BY <1>1, <2>1, Addresses DEF A
  <2>3. i < j  BY <1>2, <1>5, <2>1, <2>2
  <2>4. FSAAddress(size, i) + A <= FSAAddress(size, j)  BY <1>1, <2>1, <2>3, Addresses DEF A
  <2> QED  BY <1>1, <1>2, <2>1, <2>4
<1> QED  BY <1>4, <1>5 DEF ChunksApart, Chunks, size

\* At most as many chunks are free as there are.
LEMMA ChunksAreFinite ==
    ASSUME NEW size PROVE IsFiniteSet(Chunks(size)) /\ Cardinality(Chunks(size)) <= NUM_CHUNKS
                          /\ Cardinality(Chunks(size)) \in Nat
<1> DEFINE I == 0 .. NUM_CHUNKS - 1
           f == [i \in I |-> FSAAddress(size, i)]
<1>1. f \in Surjection(I, Chunks(size))  BY DEF Surjection, Chunks
<1>2. NUM_CHUNKS \in Nat /\ 0 \in Int /\ NUM_CHUNKS - 1 \in Int  BY FSAAssumption
<1>3. IsFiniteSet(I) /\ Cardinality(I) = NUM_CHUNKS
  <2>1. IsFiniteSet(I) /\ Cardinality(I) = IF 0 > NUM_CHUNKS - 1 THEN 0 ELSE NUM_CHUNKS - 1 - 0 + 1
    BY <1>2, FS_Interval
  <2> QED  BY <1>2, <2>1
<1>4. IsFiniteSet(Chunks(size)) /\ Cardinality(Chunks(size)) <= Cardinality(I)
  BY <1>1, <1>3, FS_Surjection
<1> QED  BY <1>3, <1>4, FS_CardinalityType

-----------------------------------------------------------------------------
(* FSA: the free list.                                                     *)

\* The free chunks from the one whose link ends the list, at 1, to its first, at n.
FreeList(n, s) ==
    /\ n \in Nat /\ s \in [0 .. n -> {PoolAddress} \cup (Chunks(fsaChunkSize) \ fsaLive)]
    /\ s[0] = PoolAddress /\ fsaWords[PoolAddress] = s[n]
    /\ \A i \in 1 .. n : s[i] # PoolAddress /\ fsaWords[s[i]] = s[i - 1]
    /\ \A i, j \in 1 .. n : s[i] = s[j] => i = j
    /\ \A c \in Chunks(fsaChunkSize) \ fsaLive : \E i \in 1 .. n : s[i] = c

FSAInv == FSATypeOK /\ \E n, s : FreeList(n, s)

LEMMA ListFits ==
    ASSUME FSATypeOK, NEW n, NEW s, FreeList(n, s) PROVE n <= NUM_CHUNKS
<1> DEFINE C == Chunks(fsaChunkSize)
           f == [i \in 1 .. n |-> s[i]]
<1>1. n \in Nat /\ \A i \in 1 .. n : s[i] \in C  BY DEF FreeList
<1>2. \A i, j \in 1 .. n : s[i] = s[j] => i = j  BY DEF FreeList
<1>3. IsFiniteSet(C) /\ Cardinality(C) <= NUM_CHUNKS /\ Cardinality(C) \in Nat  BY ChunksAreFinite
<1> HIDE DEF C
<1>4. f \in Injection(1 .. n, C)  BY <1>1, <1>2 DEF Injection, IsInjective
<1>5. Cardinality(1 .. n) <= Cardinality(C)  BY <1>3, <1>4, FS_Injection
<1>6. Cardinality(1 .. n) = n
  <2>1. Cardinality(1 .. n) = IF 1 > n THEN 0 ELSE n - 1 + 1  BY <1>1, FS_Interval
  <2> QED  BY <1>1, <2>1
<1>7. NUM_CHUNKS \in Nat  BY FSAAssumption
<1> QED  BY <1>1, <1>3, <1>5, <1>6, <1>7

LEMMA FSABegins == FSAInit => FSAInv
<1> SUFFICES ASSUME FSAInit PROVE FSAInv  OBVIOUS
<1> DEFINE size == fsaChunkSize
           N == NUM_CHUNKS
           s == [i \in 0 .. N |-> IF i = 0 THEN PoolAddress ELSE FSAAddress(size, N - i)]
<1>1. /\ size \in Nat \ {0} /\ N \in Nat \ {0} /\ size \in FSA_CHUNK_SIZES /\ fsaLive = {}
      /\ fsaWords = [a \in {PoolAddress} \cup Chunks(size) |->
                        IF a = PoolAddress THEN FSAAddress(size, 0)
                        ELSE IF a = FSAAddress(size, N - 1) THEN PoolAddress
                        ELSE a + AllignedChunkSize(size)]
  BY FSAAssumption DEF FSAInit
<1>2. \A i \in 0 .. N - 1 : FSAAddress(size, i) \in Chunks(size)  BY DEF Chunks
<1>3. \A c \in Chunks(size) : \E i \in 0 .. N - 1 : c = FSAAddress(size, i)  BY DEF Chunks
<1>4. \A i \in 0 .. N - 1 : FSAAddress(size, i) # PoolAddress
  <2>1. \A i \in 0 .. N - 1 : i \in Nat  BY <1>1
  <2>2. \A i \in Nat : FSAAddress(size, i) >= 8  BY <1>1, Addresses DEF Sizeof
  <2> QED  BY <2>1, <2>2 DEF PoolAddress
<1>5. ASSUME NEW i \in 0 .. N - 1
      PROVE  fsaWords[FSAAddress(size, i)] = IF i = N - 1 THEN PoolAddress ELSE FSAAddress(size, i + 1)
  <2>1. i \in Nat /\ N - 1 \in Nat  BY <1>1
  <2>2. FSAAddress(size, i) = FSAAddress(size, N - 1) => i = N - 1  BY <1>1, <2>1, AddressesDiffer
  <2>3. FSAAddress(size, i + 1) = FSAAddress(size, i) + AllignedChunkSize(size)  BY <1>1, <2>1, Addresses
  <2> HIDE DEF N
  <2> QED  BY <1>1, <1>2, <1>4, <2>2, <2>3
<1> HIDE DEF size, N
<1>6. FSATypeOK
  <2>1. fsaWords[PoolAddress] = FSAAddress(size, 0)  BY <1>1
  <2>2. \A c \in Chunks(size) : fsaWords[c] \in {PoolAddress} \cup Chunks(size)
    <3>1. ASSUME NEW i \in 0 .. N - 1 PROVE fsaWords[FSAAddress(size, i)] \in {PoolAddress} \cup Chunks(size)
      <4>1. i # N - 1 => i + 1 \in 0 .. N - 1  BY <1>1
      <4> QED  BY <1>2, <1>5, <4>1
    <3> QED  BY <1>3, <3>1
  <2>3. 0 \in 0 .. N - 1  BY <1>1
  <2> QED  BY <1>1, <1>2, <2>1, <2>2, <2>3 DEF FSATypeOK, size
<1>7. FreeList(N, s)
  <2>1. \A i \in 1 .. N : N - i \in 0 .. N - 1 /\ s[i] = FSAAddress(size, N - i)  BY <1>1
  <2>2. s[0] = PoolAddress  BY <1>1
  <2>3. s \in [0 .. N -> {PoolAddress} \cup Chunks(size)]  BY <1>1, <1>2, <2>1
  <2>4. fsaWords[PoolAddress] = s[N]
    <3>1. N \in 1 .. N /\ N - N = 0  BY <1>1
    <3> QED  BY <1>1, <2>1, <3>1
  <2> HIDE DEF s
  <2>5. ASSUME NEW i \in 1 .. N PROVE s[i] # PoolAddress /\ fsaWords[s[i]] = s[i - 1]
    <3>1. N - i = N - 1 <=> i = 1  BY <1>1
    <3>2. i # 1 => i - 1 \in 1 .. N /\ N - i + 1 = N - (i - 1)  BY <1>1
    <3> QED  BY <1>4, <1>5, <2>1, <2>2, <3>1, <3>2
  <2>6. ASSUME NEW i \in 1 .. N, NEW j \in 1 .. N, s[i] = s[j] PROVE i = j
    <3>1. N - i \in Nat /\ N - j \in Nat  BY <1>1
    <3>2. N - i = N - j  BY <1>1, <2>1, <2>6, <3>1, AddressesDiffer
    <3> QED  BY <1>1, <3>2
  <2>7. ASSUME NEW c \in Chunks(size) PROVE \E i \in 1 .. N : s[i] = c
    <3>1. PICK j \in 0 .. N - 1 : c = FSAAddress(size, j)  BY <1>3
    <3>2. N - j \in 1 .. N /\ N - (N - j) = j  BY <1>1
    <3> QED  BY <2>1, <3>1, <3>2
  <2> QED  BY <1>1, <2>2, <2>3, <2>4, <2>5, <2>6, <2>7 DEF FreeList, size
<1> QED  BY <1>6, <1>7 DEF FSAInv

LEMMA FSAAllocKeeps == FSAInv /\ FSAAlloc => FSAInv'
<1> SUFFICES ASSUME FSAInv, FSAAlloc PROVE FSAInv'  OBVIOUS
<1> DEFINE C == Chunks(fsaChunkSize)
<1>1. PICK n, s : FreeList(n, s)  BY DEF FSAInv
<1> DEFINE chunk == s[n]
           rest == [i \in 0 .. n - 1 |-> s[i]]
<1>2. /\ n \in Nat /\ s[0] = PoolAddress /\ fsaWords[PoolAddress] = s[n]
      /\ \A i \in 0 .. n : s[i] \in {PoolAddress} \cup (C \ fsaLive)
      /\ \A i \in 1 .. n : s[i] # PoolAddress /\ fsaWords[s[i]] = s[i - 1]
      /\ \A i, j \in 1 .. n : s[i] = s[j] => i = j
      /\ \A c \in C \ fsaLive : \E i \in 1 .. n : s[i] = c
  BY <1>1 DEF FreeList
<1>3. /\ chunk # PoolAddress /\ fsaLive' = fsaLive \cup {chunk} /\ fsaChunkSize' = fsaChunkSize
      /\ fsaWords' = [fsaWords EXCEPT ![PoolAddress] = fsaWords[chunk], ![chunk] = UserData]
  BY <1>2 DEF FSAAlloc
<1>4. /\ fsaLive \subseteq C /\ fsaWords \in [{PoolAddress} \cup C -> {PoolAddress, UserData} \cup C]
      /\ fsaChunkSize \in FSA_CHUNK_SIZES
  BY DEF FSAInv, FSATypeOK
<1>5. n # 0 /\ n \in 1 .. n /\ n - 1 \in Nat  BY <1>2, <1>3
<1>6. chunk \in C \ fsaLive /\ fsaWords[chunk] = s[n - 1]  BY <1>2, <1>3, <1>5
<1>7. C' = C  BY <1>3
<1> HIDE DEF C
<1>8. /\ fsaWords' \in [{PoolAddress} \cup C -> {PoolAddress, UserData} \cup C]
      /\ fsaWords'[PoolAddress] = s[n - 1]
      /\ \A c \in C \ {chunk} : c # PoolAddress => fsaWords'[c] = fsaWords[c]
  BY <1>3, <1>4, <1>6
<1>9. FSATypeOK'  BY <1>3, <1>4, <1>6, <1>7, <1>8 DEF FSATypeOK, C
<1>10. /\ \A i \in 0 .. n - 1 : i \in 0 .. n /\ rest[i] = s[i] /\ i # n
       /\ \A i \in 1 .. n - 1 : i \in 1 .. n /\ i # n /\ i \in 0 .. n - 1 /\ i - 1 \in 0 .. n - 1
       /\ 0 \in 0 .. n - 1 /\ n - 1 \in 0 .. n - 1
  BY <1>2, <1>5
<1>11. \A i \in 1 .. n - 1 : s[i] # chunk  BY <1>2, <1>5, <1>10
<1>12. rest \in [0 .. n - 1 -> {PoolAddress} \cup (C \ fsaLive')]
  <2>1. ASSUME NEW i \in 0 .. n - 1 PROVE s[i] \in {PoolAddress} \cup (C \ fsaLive')
    <3>1. CASE i = 0  BY <1>2, <3>1
    <3>2. CASE i # 0
      <4>1. i \in 1 .. n - 1  BY <1>5, <3>2
      <4> QED  BY <1>2, <1>3, <1>10, <1>11, <4>1
    <3> QED  BY <3>1, <3>2
  <2> QED  BY <2>1
<1> HIDE DEF rest
<1>13. \A i \in 1 .. n - 1 : rest[i] # PoolAddress /\ fsaWords'[rest[i]] = rest[i - 1]
  BY <1>2, <1>8, <1>10, <1>11
<1>14. ASSUME NEW c \in C \ fsaLive' PROVE \E i \in 1 .. n - 1 : rest[i] = c
  <2>1. PICK i \in 1 .. n : s[i] = c  BY <1>2, <1>3
  <2>2. i # n  BY <1>3, <2>1
  <2>3. i \in 1 .. n - 1  BY <1>5, <2>2
  <2> QED  BY <1>10, <2>1, <2>3
<1>15. FreeList(n - 1, rest)'
  <2>1. rest[0] = PoolAddress /\ fsaWords'[PoolAddress] = rest[n - 1]  BY <1>2, <1>8, <1>10
  <2>2. \A i, j \in 1 .. n - 1 : rest[i] = rest[j] => i = j  BY <1>2, <1>10
  <2> QED  BY <1>5, <1>7, <1>12, <1>13, <1>14, <2>1, <2>2 DEF FreeList, C
<1> QED  BY <1>9, <1>15 DEF FSAInv

LEMMA FSAFreeKeeps == ASSUME FSAInv, NEW chunk \in fsaLive, FSAFree(chunk) PROVE FSAInv'
<1> DEFINE C == Chunks(fsaChunkSize)
<1>1. PICK n, s : FreeList(n, s)  BY DEF FSAInv
<1> DEFINE longer == [i \in 0 .. n + 1 |-> IF i = n + 1 THEN chunk ELSE s[i]]
<1>2. /\ n \in Nat /\ s[0] = PoolAddress /\ fsaWords[PoolAddress] = s[n]
      /\ \A i \in 0 .. n : s[i] \in {PoolAddress} \cup (C \ fsaLive)
      /\ \A i \in 1 .. n : s[i] # PoolAddress /\ fsaWords[s[i]] = s[i - 1]
      /\ \A i, j \in 1 .. n : s[i] = s[j] => i = j
      /\ \A c \in C \ fsaLive : \E i \in 1 .. n : s[i] = c
  BY <1>1 DEF FreeList
<1>3. /\ fsaLive' = fsaLive \ {chunk} /\ fsaChunkSize' = fsaChunkSize
      /\ fsaWords' = [fsaWords EXCEPT ![chunk] = fsaWords[PoolAddress], ![PoolAddress] = chunk]
  BY DEF FSAFree
<1>4. /\ fsaLive \subseteq C /\ fsaWords \in [{PoolAddress} \cup C -> {PoolAddress, UserData} \cup C]
      /\ fsaChunkSize \in FSA_CHUNK_SIZES
  BY DEF FSAInv, FSATypeOK
<1>5. chunk # PoolAddress /\ C' = C
  <2>1. PICK i \in 0 .. NUM_CHUNKS - 1 : chunk = FSAAddress(fsaChunkSize, i)  BY <1>4 DEF C, Chunks
  <2>2. fsaChunkSize \in Nat \ {0} /\ i \in Nat  BY <1>4, FSAAssumption
  <2>3. chunk >= 8  BY <2>1, <2>2, Addresses DEF Sizeof
  <2> QED  BY <1>3, <2>3 DEF PoolAddress
<1>6. chunk \in C  BY <1>4
<1> HIDE DEF C
<1>7. /\ fsaWords' \in [{PoolAddress} \cup C -> {PoolAddress, UserData} \cup C]
      /\ fsaWords'[PoolAddress] = chunk /\ fsaWords'[chunk] = s[n]
      /\ \A c \in C \ {chunk} : c # PoolAddress => fsaWords'[c] = fsaWords[c]
  BY <1>2, <1>3, <1>4, <1>5, <1>6
<1>8. FSATypeOK'  BY <1>3, <1>4, <1>5, <1>7 DEF FSATypeOK, C
<1>9. /\ \A i \in 0 .. n : longer[i] = s[i]
      /\ longer[n + 1] = chunk /\ n + 1 \in Nat /\ n + 1 - 1 = n /\ n \in 0 .. n /\ 0 \in 0 .. n
      /\ \A i \in 1 .. n + 1 : i = n + 1 \/ i \in 1 .. n
      /\ \A i \in 0 .. n + 1 : i = n + 1 \/ i \in 0 .. n
      /\ \A i \in 1 .. n : i \in 1 .. n + 1 /\ i - 1 \in 0 .. n /\ i \in 0 .. n
      /\ n + 1 \in 1 .. n + 1
  BY <1>2
<1>10. longer \in [0 .. n + 1 -> {PoolAddress} \cup (C \ fsaLive')]
  <2>1. \A i \in 0 .. n + 1 : longer[i] \in {PoolAddress} \cup (C \ fsaLive')
    BY <1>2, <1>3, <1>6, <1>9
  <2> QED  BY <2>1
<1> HIDE DEF longer
<1>11. \A i \in 1 .. n : s[i] \in C \ {chunk}  BY <1>2, <1>9
<1>12. ASSUME NEW i \in 1 .. n + 1 PROVE longer[i] # PoolAddress /\ fsaWords'[longer[i]] = longer[i - 1]
  <2>1. CASE i = n + 1
    <3>1. longer[i] = chunk /\ i - 1 = n /\ longer[n] = s[n]  BY <1>9, <2>1
    <3>2. chunk # PoolAddress /\ fsaWords'[chunk] = s[n]  BY <1>5, <1>7
    <3> QED  BY <3>1, <3>2
  <2>2. CASE i \in 1 .. n
    <3>1. longer[i] = s[i] /\ longer[i - 1] = s[i - 1]  BY <1>9, <2>2
    <3>2. s[i] # PoolAddress /\ fsaWords[s[i]] = s[i - 1]  BY <1>2, <2>2
    <3>3. fsaWords'[s[i]] = fsaWords[s[i]]  BY <1>7, <1>11, <2>2, <3>2
    <3> QED  BY <3>1, <3>2, <3>3
  <2> QED  BY <1>9, <2>1, <2>2
<1>13. \A i, j \in 1 .. n + 1 : longer[i] = longer[j] => i = j  BY <1>2, <1>9, <1>11
<1>14. \A c \in C \ fsaLive' : \E i \in 1 .. n + 1 : longer[i] = c  BY <1>2, <1>3, <1>9
<1>15. FreeList(n + 1, longer)'
  BY <1>2, <1>5, <1>7, <1>9, <1>10, <1>12, <1>13, <1>14 DEF FreeList, C
<1> QED  BY <1>8, <1>15 DEF FSAInv

LEMMA FSAStepKeeps == FSAInv /\ [FSANext]_fsaVars => FSAInv'
<1> SUFFICES ASSUME FSAInv, [FSANext]_fsaVars PROVE FSAInv'  OBVIOUS
<1>1. CASE UNCHANGED fsaVars
  <2>1. fsaChunkSize' = fsaChunkSize /\ fsaWords' = fsaWords /\ fsaLive' = fsaLive  BY <1>1 DEF fsaVars
  <2>2. FSATypeOK'  BY <2>1 DEF FSAInv, FSATypeOK
  <2>3. PICK n, s : FreeList(n, s)  BY DEF FSAInv
  <2>4. FreeList(n, s)'  BY <2>1, <2>3 DEF FreeList
  <2> QED  BY <2>2, <2>4 DEF FSAInv
<1> QED  BY <1>1, FSAAllocKeeps, FSAFreeKeeps DEF FSANext

-----------------------------------------------------------------------------
(* FSACountFreeChunks walks over that list.                                *)

LEMMA HasLowest ==
    ASSUME NEW S \in SUBSET Nat, S # {} PROVE \E x \in S : \A y \in S : x <= y
<1> DEFINE Less == OpToRel(<, Nat)
<1>1. \E x \in S : \A y \in S : <<y, x>> \notin Less
  <2>1. IsWellFoundedOn(Less, Nat)  BY NatLessThanWellFounded
  <2> HIDE DEF Less
  <2> QED  BY <2>1, WFMin
<1>2. PICK x \in S : \A y \in S : <<y, x>> \notin OpToRel(<, Nat)  BY <1>1
<1>3. \A y \in S : ~(y < x)  BY <1>2 DEF OpToRel
<1>4. x \in Nat /\ \A y \in S : y \in Nat  OBVIOUS
<1> QED  BY <1>3, <1>4

\* What a walk over the links is: the recursive function is the only one of its equation.
IsWalk(w) ==
    w = [i \in 0 .. NUM_CHUNKS |->
            IF i = 0 THEN fsaWords[PoolAddress]
            ELSE IF w[i - 1] \in {PoolAddress, UserData} THEN w[i - 1] ELSE fsaWords[w[i - 1]]]

LEMMA WalksAreOne ==
    ASSUME NEW v, NEW w, IsWalk(v), IsWalk(w) PROVE v = w
<1>1. NUM_CHUNKS \in Nat  BY FSAAssumption
<1> DEFINE Apart == {i \in 0 .. NUM_CHUNKS : v[i] # w[i]}
<1>2. Apart = {}
  <2>1. SUFFICES ASSUME Apart # {} PROVE FALSE  OBVIOUS
  <2>2. PICK i \in Apart : \A j \in Apart : i <= j
    <3>1. Apart \in SUBSET Nat  BY <1>1
    <3> HIDE DEF Apart
    <3> QED  BY <2>1, <3>1, HasLowest
  <2>3. i \in 0 .. NUM_CHUNKS /\ v[i] # w[i]  OBVIOUS
  <2>4. i # 0  BY <2>3, <1>1 DEF IsWalk
  <2>5. i - 1 \in 0 .. NUM_CHUNKS /\ ~(i <= i - 1)  BY <1>1, <2>3, <2>4
  <2>6. v[i - 1] = w[i - 1]  BY <2>2, <2>5
  <2> HIDE DEF Apart
  <2>7. ASSUME NEW u, IsWalk(u)
        PROVE  u[i] = IF u[i - 1] \in {PoolAddress, UserData} THEN u[i - 1] ELSE fsaWords[u[i - 1]]
    BY <2>3, <2>4, <2>7 DEF IsWalk
  <2> QED  BY <2>3, <2>6, <2>7
<1>3. v = [i \in 0 .. NUM_CHUNKS |-> v[i]] /\ w = [i \in 0 .. NUM_CHUNKS |-> w[i]]  BY DEF IsWalk
<1> QED  BY <1>2, <1>3

LEMMA TheWalk == ASSUME NEW w, IsWalk(w) PROVE FSAWalk = w
<1>1. IsWalk(FSAWalk)  BY DEF IsWalk, FSAWalk
<1> QED  BY <1>1, WalksAreOne

LEMMA FreeListWalked == FSAInv => FreeListIsTheRest
<1> SUFFICES ASSUME FSAInv PROVE FreeListIsTheRest  OBVIOUS
<1> DEFINE C == Chunks(fsaChunkSize)
           N == NUM_CHUNKS
<1>1. PICK n, s : FreeList(n, s)  BY DEF FSAInv
<1>2. /\ n \in Nat /\ s[0] = PoolAddress /\ fsaWords[PoolAddress] = s[n]
      /\ \A i \in 0 .. n : s[i] \in {PoolAddress} \cup (C \ fsaLive)
      /\ \A i \in 1 .. n : s[i] # PoolAddress /\ fsaWords[s[i]] = s[i - 1]
      /\ \A c \in C \ fsaLive : \E i \in 1 .. n : s[i] = c
  BY <1>1 DEF FreeList
<1>3. N \in Nat /\ n <= N  BY <1>1, ListFits, FSAAssumption DEF FSAInv
<1>4. ASSUME NEW c \in C PROVE c # PoolAddress /\ c # UserData
  <2>1. PICK i \in 0 .. NUM_CHUNKS - 1 : c = FSAAddress(fsaChunkSize, i)  BY DEF Chunks
  <2>2. fsaChunkSize \in Nat \ {0} /\ i \in Nat  BY FSAAssumption DEF FSAInv, FSATypeOK
  <2>3. c >= 8  BY <2>1, <2>2, Addresses DEF Sizeof
  <2> QED  BY <2>3 DEF PoolAddress, UserData
<1> HIDE DEF C
<1> DEFINE w == [i \in 0 .. N |-> IF i <= n THEN s[n - i] ELSE PoolAddress]
<1>5. IsWalk(w)
  <2>1. ASSUME NEW i \in 0 .. N
        PROVE  w[i] = IF i = 0 THEN fsaWords[PoolAddress]
                      ELSE IF w[i - 1] \in {PoolAddress, UserData} THEN w[i - 1] ELSE fsaWords[w[i - 1]]
    <3>1. CASE i = 0
      <4>1. w[i] = s[n]  BY <1>2, <1>3, <3>1
      <4> QED  BY <1>2, <3>1, <4>1
    <3>2. CASE i # 0 /\ i <= n
      <4>1. i - 1 \in 0 .. N /\ i - 1 <= n /\ n - (i - 1) \in 1 .. n /\ n - (i - 1) - 1 = n - i
            /\ n - (i - 1) \in 0 .. n
        BY <1>2, <1>3, <3>2
      <4>2. w[i] = s[n - i] /\ w[i - 1] = s[n - (i - 1)]  BY <3>2, <4>1
      <4> HIDE DEF w
      <4>3. w[i - 1] \in C  BY <1>2, <4>1, <4>2
      <4>4. fsaWords[w[i - 1]] = s[n - (i - 1) - 1]  BY <1>2, <4>1, <4>2
      <4> QED  BY <1>4, <3>2, <4>1, <4>2, <4>3, <4>4
    <3>3. CASE i # 0 /\ i > n
      <4>1. i - 1 \in 0 .. N /\ w[i] = PoolAddress  BY <1>2, <1>3, <3>3
      <4>2. w[i - 1] = PoolAddress
        <5>1. CASE i - 1 = n
          <6>1. n - (i - 1) = 0 /\ i - 1 <= n  BY <1>2, <5>1
          <6> QED  BY <1>2, <4>1, <6>1
        <5>2. CASE i - 1 # n
          <6>1. ~(i - 1 <= n)  BY <1>2, <3>3, <4>1, <5>2
          <6> QED  BY <4>1, <6>1
        <5> QED  BY <5>1, <5>2
      <4> QED  BY <3>3, <4>1, <4>2
    <3> QED  BY <1>2, <3>1, <3>2, <3>3
  <2>2. w = [i \in 0 .. N |-> w[i]]  OBVIOUS
  <2> HIDE DEF w
  <2> QED  BY <2>1, <2>2 DEF IsWalk
<1>6. FSAWalk = w  BY <1>5, TheWalk
<1>7. w[N] = PoolAddress
  <2>1. N \in 0 .. N  BY <1>3
  <2>2. N <= n => n - N = 0  BY <1>2, <1>3
  <2> QED  BY <1>2, <2>1, <2>2
<1>8. \A i \in 0 .. N : w[i] \in {PoolAddress} \cup (C \ fsaLive)
  <2>1. \A i \in 0 .. N : i <= n => n - i \in 0 .. n  BY <1>2
  <2> QED  BY <1>2, <2>1
<1>9. ASSUME NEW c \in C \ fsaLive PROVE \E i \in 0 .. N : w[i] = c
  <2>1. PICK j \in 1 .. n : s[j] = c  BY <1>2
  <2>2. n - j \in 0 .. N /\ n - j <= n /\ n - (n - j) = j  BY <1>2, <1>3
  <2> QED  BY <2>1, <2>2
<1> HIDE DEF w
<1>10. {w[i] : i \in 0 .. N} \ {PoolAddress} = C \ fsaLive  BY <1>4, <1>8, <1>9
<1> QED  BY <1>6, <1>7, <1>10 DEF FreeListIsTheRest, C

(***************************************************************************)
(* Whatever is asked for and freed, at every step of every call the blocks *)
(* of the pool of variable sizes tile it and those in use are the ones     *)
(* their callers hold; the free list of the pool of equal chunks is the    *)
(* chunks nobody holds, and its walk ends.                                 *)
(***************************************************************************)
THEOREM AllocatorsStaySound == AllocatorsSpec => []AllocatorsAreSound
<1>1. AllocatorsInit => VSAInv /\ FSAInv  BY VSABegins, FSABegins DEF AllocatorsInit
<1>2. VSAInv /\ FSAInv /\ [AllocatorsNext]_<<vsaVars, fsaVars>> => (VSAInv /\ FSAInv)'
  <2>1. [AllocatorsNext]_<<vsaVars, fsaVars>> => [VSANext]_vsaVars /\ [FSANext]_fsaVars
    BY DEF AllocatorsNext
  <2> QED  BY <2>1, VSAStepKeeps, FSAStepKeeps
<1>3. VSAInv /\ FSAInv => AllocatorsAreSound
  <2>1. FSAInv => FSATypeOK /\ ChunksApart /\ FreeListIsTheRest
    BY ChunksAreApart, FreeListWalked DEF FSAInv
  <2>2. VSAInv => VSATypeOK /\ VSAPoolIsSound  BY DEF VSAInv
  <2> QED  BY <2>1, <2>2 DEF AllocatorsAreSound, FSAPoolIsSound
<1> QED  BY <1>1, <1>2, <1>3, PTL DEF AllocatorsSpec

-----------------------------------------------------------------------------
(* DHCP: the nodes of the trie, k levels down on the way to a host.        *)

At(host, k) == SubSeq(host, 1, k)

LEMMA BitsAssumed == HOST_BITS \in Nat /\ HOST_BITS > 1 /\ NET_BITS \in Nat
BY HostBitsAssumption

LEMMA HostsAre ==
    ASSUME NEW host \in Hosts
    PROVE  host \in Seq({0, 1}) /\ Len(host) = HOST_BITS /\ \A i \in 1 .. HOST_BITS : host[i] \in {0, 1}
BY BitsAssumed DEF Hosts

LEMMA AtIs ==
    ASSUME NEW host \in Hosts, NEW k \in 0 .. HOST_BITS
    PROVE  /\ At(host, k) = [i \in 1 .. k |-> host[i]]
           /\ At(host, k) \in Seq({0, 1}) /\ Len(At(host, k)) = k
<1>1. host \in Seq({0, 1}) /\ Len(host) = HOST_BITS  BY HostsAre
<1>2. At(host, k) \in Seq({0, 1}) /\ Len(At(host, k)) = k
      /\ \A i \in 1 .. k : At(host, k)[i] = host[i]
  BY <1>1, BitsAssumed DEF At
<1>3. At(host, k) = [i \in 1 .. Len(At(host, k)) |-> At(host, k)[i]]  BY <1>2
<1>4. At(host, k) = [i \in 1 .. k |-> At(host, k)[i]]  BY <1>2, <1>3
<1> QED  BY <1>2, <1>4

\* Two nodes are the same if they are as far down and the bits on their ways are.
LEMMA AtEqual ==
    ASSUME NEW g \in Hosts, NEW h \in Hosts, NEW j \in 0 .. HOST_BITS, NEW k \in 0 .. HOST_BITS
    PROVE  At(g, j) = At(h, k) <=> j = k /\ \A i \in 1 .. k : g[i] = h[i]
<1>1. /\ At(g, j) = [i \in 1 .. j |-> g[i]] /\ Len(At(g, j)) = j
      /\ At(h, k) = [i \in 1 .. k |-> h[i]] /\ Len(At(h, k)) = k
  BY AtIs
<1>2. ASSUME At(g, j) = At(h, k) PROVE j = k /\ \A i \in 1 .. k : g[i] = h[i]
  <2>1. j = k  BY <1>1, <1>2
  <2>2. ASSUME NEW i \in 1 .. k PROVE g[i] = h[i]
    <3>1. At(g, j)[i] = g[i] /\ At(h, k)[i] = h[i]  BY <1>1, <2>1
    <3> QED  BY <1>2, <3>1
  <2> QED  BY <2>1, <2>2
<1>3. ASSUME j = k, \A i \in 1 .. k : g[i] = h[i] PROVE At(g, j) = At(h, k)
  BY <1>1, <1>3
<1> QED  BY <1>2, <1>3

LEMMA AtEnd == ASSUME NEW h \in Hosts PROVE At(h, HOST_BITS) = h /\ At(h, 0) = Root
<1>1. h = [i \in 1 .. HOST_BITS |-> h[i]] /\ At(h, HOST_BITS) = [i \in 1 .. HOST_BITS |-> h[i]]
  BY AtIs, BitsAssumed DEF Hosts
<1>2. At(h, 0) \in Seq({0, 1}) /\ Len(At(h, 0)) = 0  BY AtIs, BitsAssumed
<1>3. At(h, 0) = <<>>  BY <1>2
<1> QED  BY <1>1, <1>3 DEF Root

\* A child is on the way to the host with another bit there.
Turned(h, k, bit) == [h EXCEPT ![k] = bit]

LEMMA ChildIs ==
    ASSUME NEW h \in Hosts, NEW k \in 0 .. HOST_BITS - 1, NEW bit \in {0, 1}
    PROVE  /\ Turned(h, k + 1, bit) \in Hosts
           /\ Turned(h, k + 1, bit)[k + 1] = bit
           /\ \A i \in 1 .. HOST_BITS : i # k + 1 => Turned(h, k + 1, bit)[i] = h[i]
           /\ Append(At(h, k), bit) = At(Turned(h, k + 1, bit), k + 1)
           /\ bit = h[k + 1] => Append(At(h, k), bit) = At(h, k + 1)
<1> DEFINE g == Turned(h, k + 1, bit)
<1>1. k \in 0 .. HOST_BITS /\ k + 1 \in 0 .. HOST_BITS /\ k + 1 \in 1 .. HOST_BITS /\ k \in Nat
  BY BitsAssumed
<1>2. g \in Hosts /\ g[k + 1] = bit /\ \A i \in 1 .. HOST_BITS : i # k + 1 => g[i] = h[i]
  BY <1>1 DEF Turned, Hosts
<1> HIDE DEF g
<1>3. Append(At(h, k), bit) = At(g, k + 1)
  <2>1. /\ At(h, k) = [i \in 1 .. k |-> h[i]] /\ At(h, k) \in Seq({0, 1}) /\ Len(At(h, k)) = k
        /\ At(g, k + 1) = [i \in 1 .. k + 1 |-> g[i]] /\ At(g, k + 1) \in Seq({0, 1}) /\ Len(At(g, k + 1)) = k + 1
    BY <1>1, <1>2, AtIs
  <2> DEFINE a == Append(At(h, k), bit)
  <2>2. a \in Seq({0, 1}) /\ Len(a) = k + 1 /\ a[k + 1] = bit /\ \A i \in 1 .. k : a[i] = At(h, k)[i]
    BY <1>1, <2>1
  <2> HIDE DEF a
  <2>3. \A i \in 1 .. k : i \in 1 .. HOST_BITS /\ i # k + 1 /\ At(h, k)[i] = h[i]  BY <1>1, <2>1, BitsAssumed
  <2>4. \A i \in 1 .. k + 1 : a[i] = g[i]
    <3>1. \A i \in 1 .. k + 1 : i = k + 1 \/ i \in 1 .. k  BY <1>1
    <3> QED  BY <1>2, <2>2, <2>3, <3>1
  <2>5. a = [i \in 1 .. Len(a) |-> a[i]]  BY <2>2
  <2>6. a = [i \in 1 .. k + 1 |-> a[i]]  BY <2>2, <2>5
  <2> QED  BY <2>1, <2>4, <2>6 DEF a
<1>4. bit = h[k + 1] => \A i \in 1 .. k + 1 : g[i] = h[i]
  <2>1. \A i \in 1 .. k + 1 : i \in 1 .. HOST_BITS  BY <1>1, BitsAssumed
  <2> QED  BY <1>2, <2>1
<1>5. bit = h[k + 1] => At(g, k + 1) = At(h, k + 1)  BY <1>1, <1>2, <1>4, AtEqual
<1> QED  BY <1>2, <1>3, <1>5 DEF g

LEMMA StepIs ==
    ASSUME NEW h \in Hosts, NEW i \in 1 .. HOST_BITS, NEW bit \in {0, 1}
    PROVE  /\ Append(At(h, i - 1), bit) = At(Turned(h, i, bit), i) /\ Turned(h, i, bit) \in Hosts
           /\ Turned(h, i, bit)[i] = bit
           /\ \A j \in 1 .. HOST_BITS : j # i => Turned(h, i, bit)[j] = h[j]
           /\ bit = h[i] => Append(At(h, i - 1), bit) = At(h, i)
<1>1. PICK k \in 0 .. HOST_BITS - 1 : i = k + 1
  <2>1. i - 1 \in 0 .. HOST_BITS - 1 /\ i = i - 1 + 1  BY BitsAssumed
  <2> QED  BY <2>1
<1>2. i - 1 = k  BY <1>1
<1>3. /\ Append(At(h, k), bit) = At(Turned(h, k + 1, bit), k + 1) /\ Turned(h, k + 1, bit) \in Hosts
      /\ Turned(h, k + 1, bit)[k + 1] = bit
      /\ \A j \in 1 .. HOST_BITS : j # k + 1 => Turned(h, k + 1, bit)[j] = h[j]
      /\ bit = h[k + 1] => Append(At(h, k), bit) = At(h, k + 1)
  BY ChildIs
<1> QED  BY <1>1, <1>2, <1>3

\* The two children of a node on the way to the word.
LEMMA BesideIs ==
    ASSUME NEW w \in Hosts, NEW k \in 0 .. HOST_BITS - 1
    PROVE  /\ 1 - w[k + 1] \in {0, 1} /\ Beside(w, k + 1) = Append(At(w, k), 1 - w[k + 1])
           /\ Append(At(w, k), w[k + 1]) = At(w, k + 1)
<1>1. k + 1 \in 1 .. HOST_BITS /\ k + 1 - 1 = k  BY BitsAssumed
<1>2. w[k + 1] \in {0, 1}  BY <1>1, HostsAre
<1> QED  BY <1>1, <1>2, ChildIs DEF Beside, At

LEMMA OnTheWay ==
    ASSUME NEW h \in Hosts, NEW w \in Hosts, NEW k \in 0 .. HOST_BITS
    PROVE  /\ IsPrefix(At(h, k), w) <=> At(h, k) = At(w, k)
           /\ IsStrictPrefix(At(h, k), w) <=> k < HOST_BITS /\ At(h, k) = At(w, k)
<1>1. /\ At(h, k) \in Seq({0, 1}) /\ Len(At(h, k)) = k /\ w \in Seq({0, 1}) /\ Len(w) = HOST_BITS
      /\ k \in Nat /\ HOST_BITS \in Nat
  BY AtIs, HostsAre, BitsAssumed
<1>2. SubSeq(At(h, k), 1, k) = At(h, k)  BY <1>1
<1>3. IsPrefix(At(h, k), w) <=> At(h, k) = At(w, k)  BY <1>1, <1>2 DEF IsPrefix, At
<1>4. k < HOST_BITS => At(h, k) # w  BY <1>1
<1>5. k = HOST_BITS /\ At(h, k) = At(w, k) => At(h, k) = w  BY AtEnd
<1> QED  BY <1>1, <1>3, <1>4, <1>5 DEF IsStrictPrefix

-----------------------------------------------------------------------------
(* DHCP: the flags of the nodes.                                           *)

\* A node has its parents, and an inner one is occupied if both its children are.
TrieOK(t) ==
    /\ \A path \in DOMAIN t : t[path] \in BOOLEAN
    /\ \A h \in Hosts, k \in 0 .. HOST_BITS : At(h, k) \in DOMAIN t => \A j \in 0 .. k : At(h, j) \in DOMAIN t
    /\ \A h \in Hosts, k \in 0 .. HOST_BITS - 1 : At(h, k) \in DOMAIN t =>
        (t[At(h, k)] <=> Occupied(t, Append(At(h, k), 0)) /\ Occupied(t, Append(At(h, k), 1)))

LEMMA GrownIs ==
    ASSUME NEW t, TrieOK(t), NEW w \in Hosts, NEW n \in 0 .. HOST_BITS
    PROVE  /\ TrieOK(Grown(t, w, n)) /\ DOMAIN t \subseteq DOMAIN Grown(t, w, n)
           /\ At(w, n) \in DOMAIN Grown(t, w, n)
           /\ \A path : Occupied(Grown(t, w, n), path) <=> Occupied(t, path)
<1> DEFINE u == Grown(t, w, n)
<1>1. /\ DOMAIN u = DOMAIN t \cup {At(w, i) : i \in 0 .. n}
      /\ \A path \in DOMAIN u : u[path] = Occupied(t, path)
  BY DEF Grown, At
<1> HIDE DEF u
<1>2. n \in 0 .. n /\ 0 .. n \subseteq 0 .. HOST_BITS  BY BitsAssumed
<1>3. \A path \in DOMAIN u : u[path] \in BOOLEAN  BY <1>1 DEF Occupied, TrieOK
<1>4. \A path : Occupied(u, path) <=> Occupied(t, path)  BY <1>1 DEF Occupied
<1>5. ASSUME NEW h \in Hosts, NEW k \in 0 .. HOST_BITS, At(h, k) \in DOMAIN u, NEW j \in 0 .. k
      PROVE  At(h, j) \in DOMAIN u
  <2>1. CASE At(h, k) \in DOMAIN t  BY <1>1, <2>1 DEF TrieOK
  <2>2. CASE At(h, k) \notin DOMAIN t
    <3>1. PICK i \in 0 .. n : At(h, k) = At(w, i)  BY <1>1, <1>5, <2>2
    <3>2. k = i /\ \A m \in 1 .. k : h[m] = w[m]  BY <1>2, <3>1, AtEqual
    <3>3. j \in 0 .. HOST_BITS /\ j \in 0 .. n /\ \A m \in 1 .. j : m \in 1 .. k  BY <1>2, <3>2, BitsAssumed
    <3>4. At(h, j) = At(w, j)  BY <3>2, <3>3, AtEqual
    <3> QED  BY <1>1, <3>3, <3>4
  <2> QED  BY <2>1, <2>2
<1>6. ASSUME NEW h \in Hosts, NEW k \in 0 .. HOST_BITS - 1, At(h, k) \in DOMAIN u
      PROVE  u[At(h, k)] <=> Occupied(u, Append(At(h, k), 0)) /\ Occupied(u, Append(At(h, k), 1))
  <2>1. CASE At(h, k) \in DOMAIN t
    <3>1. u[At(h, k)] = t[At(h, k)]  BY <1>1, <2>1 DEF Occupied, TrieOK
    <3> QED  BY <1>4, <2>1, <3>1 DEF TrieOK
  <2>2. CASE At(h, k) \notin DOMAIN t
    <3>1. ~u[At(h, k)]  BY <1>1, <1>6, <2>2 DEF Occupied
    <3>2. Append(At(h, k), 0) \notin DOMAIN t
      <4>1. Append(At(h, k), 0) = At(Turned(h, k + 1, 0), k + 1) /\ Turned(h, k + 1, 0) \in Hosts
            /\ \A i \in 1 .. HOST_BITS : i # k + 1 => Turned(h, k + 1, 0)[i] = h[i]
        BY ChildIs
      <4>2. k \in 0 .. k + 1 /\ k \in 0 .. HOST_BITS /\ k + 1 \in 0 .. HOST_BITS
            /\ \A i \in 1 .. k : i \in 1 .. HOST_BITS /\ i # k + 1
        BY BitsAssumed
      <4>3. At(Turned(h, k + 1, 0), k) = At(h, k)  BY <4>1, <4>2, AtEqual
      <4> QED  BY <2>2, <4>1, <4>2, <4>3 DEF TrieOK
    <3> QED  BY <1>4, <3>1, <3>2 DEF Occupied
  <2> QED  BY <2>1, <2>2
<1>7. TrieOK(u)  BY <1>3, <1>5, <1>6 DEF TrieOK
<1> QED  BY <1>1, <1>2, <1>4, <1>7 DEF u

\* A leaf is set, and the flags from its parent up to the root are brought up to date.
LEMMA UpdatedIs ==
    ASSUME NEW t, TrieOK(t), NEW w \in Hosts, w \in DOMAIN t, NEW v \in BOOLEAN
    PROVE  LET u == Updated([t EXCEPT ![w] = v], w)
           IN  /\ TrieOK(u) /\ DOMAIN u = DOMAIN t
               /\ \A h \in Hosts : Occupied(u, h) <=> IF h = w THEN v ELSE Occupied(t, h)
<1> DEFINE t1 == [t EXCEPT ![w] = v]
           u == Updated(t1, w)
           UpFrom(k) == Occupied(t1, w) /\ \A j \in k + 1 .. HOST_BITS : Occupied(t1, Beside(w, j))
<1>1. /\ DOMAIN t1 = DOMAIN t /\ t1[w] = v /\ \A path \in DOMAIN t : path # w => t1[path] = t[path]
      /\ \A path \in DOMAIN t1 : t1[path] \in BOOLEAN
  BY DEF TrieOK
<1>2. /\ DOMAIN u = DOMAIN t1
      /\ \A path \in DOMAIN u : ~IsStrictPrefix(path, w) => u[path] = t1[path]
      /\ \A path \in DOMAIN u : IsStrictPrefix(path, w) => u[path] = UpFrom(Len(path))
  BY DEF Updated
<1>3. \A path \in DOMAIN u : u[path] \in BOOLEAN  BY <1>1, <1>2
<1> HIDE DEF t1, u
<1>4. ASSUME NEW h \in Hosts, NEW k \in 0 .. HOST_BITS, At(h, k) \in DOMAIN t
      PROVE  /\ k < HOST_BITS /\ At(h, k) = At(w, k) => u[At(h, k)] = UpFrom(k)
             /\ At(h, k) # At(w, k) => u[At(h, k)] = t[At(h, k)]
  <2>1. CASE k < HOST_BITS /\ At(h, k) = At(w, k)
    <3>1. IsStrictPrefix(At(h, k), w) /\ Len(At(h, k)) = k  BY <2>1, OnTheWay, AtIs
    <3> HIDE DEF UpFrom
    <3>2. u[At(h, k)] = UpFrom(Len(At(h, k)))  BY <1>1, <1>2, <1>4, <3>1
    <3> QED  BY <2>1, <3>1, <3>2
  <2>2. CASE At(h, k) # At(w, k)
    <3>1. ~IsStrictPrefix(At(h, k), w)  BY <2>2, OnTheWay
    <3>2. At(h, k) # w
      <4>1. ASSUME At(h, k) = w PROVE FALSE
        <5>1. At(w, HOST_BITS) = w /\ HOST_BITS \in 0 .. HOST_BITS  BY AtEnd, BitsAssumed
        <5>2. k = HOST_BITS  BY <4>1, <5>1, AtEqual
        <5> QED  BY <2>2, <4>1, <5>1, <5>2
      <4> QED  BY <4>1
    <3> HIDE DEF UpFrom
    <3> QED  BY <1>1, <1>2, <1>4, <2>2, <3>1, <3>2
  <2> QED  BY <2>1, <2>2
<1> HIDE DEF UpFrom
<1>5. u[w] = v
  <2>1. ~IsStrictPrefix(w, w)  BY DEF IsStrictPrefix
  <2> QED  BY <1>1, <1>2, <2>1
<1>6. ASSUME NEW h \in Hosts PROVE Occupied(u, h) <=> IF h = w THEN v ELSE Occupied(t, h)
  <2>1. CASE h = w  BY <1>1, <1>2, <1>5, <2>1 DEF Occupied
  <2>2. CASE h # w
    <3>1. HOST_BITS \in 0 .. HOST_BITS /\ At(h, HOST_BITS) = h /\ At(w, HOST_BITS) = w  BY AtEnd, BitsAssumed
    <3> QED  BY <1>1, <1>2, <1>4, <2>2, <3>1 DEF Occupied
  <2> QED  BY <2>1, <2>2
<1>7. ASSUME NEW h \in Hosts, NEW k \in 0 .. HOST_BITS - 1, NEW bit \in {0, 1}, Append(At(h, k), bit) # At(w, k + 1)
      PROVE  Occupied(u, Append(At(h, k), bit)) <=> Occupied(t, Append(At(h, k), bit))
  <2>1. Append(At(h, k), bit) = At(Turned(h, k + 1, bit), k + 1) /\ Turned(h, k + 1, bit) \in Hosts
    BY ChildIs
  <2>2. k + 1 \in 0 .. HOST_BITS  BY BitsAssumed
  <2> QED  BY <1>1, <1>2, <1>4, <1>7, <2>1, <2>2 DEF Occupied
<1>8. ASSUME NEW k \in 0 .. HOST_BITS - 1
      PROVE  UpFrom(k) <=> Occupied(u, At(w, k + 1)) /\ Occupied(u, Beside(w, k + 1))
  <2>1. k + 1 \in 0 .. HOST_BITS /\ k \in Nat /\ HOST_BITS \in Nat  BY BitsAssumed
  <2>2. Occupied(u, Beside(w, k + 1)) <=> Occupied(t1, Beside(w, k + 1))
    <3>1. Beside(w, k + 1) = Append(At(w, k), 1 - w[k + 1]) /\ 1 - w[k + 1] \in {0, 1}  BY BesideIs
    <3>2. Beside(w, k + 1) # At(w, k + 1) /\ Beside(w, k + 1) # w
      <4> DEFINE g == Turned(w, k + 1, 1 - w[k + 1])
      <4>1. g \in Hosts /\ g[k + 1] = 1 - w[k + 1] /\ Beside(w, k + 1) = At(g, k + 1)
        BY <3>1, ChildIs
      <4> HIDE DEF g
      <4>2. k + 1 \in 1 .. k + 1 /\ k + 1 \in 1 .. HOST_BITS  BY <2>1
      <4>3. g[k + 1] # w[k + 1]
        <5>1. w[k + 1] \in {0, 1}  BY <4>2, HostsAre
        <5> QED  BY <4>1, <5>1
      <4>4. At(g, k + 1) # At(w, k + 1)  BY <2>1, <4>1, <4>2, <4>3, AtEqual
      <4>5. HOST_BITS \in 0 .. HOST_BITS /\ At(w, HOST_BITS) = w  BY AtEnd, BitsAssumed
      <4>6. At(g, k + 1) # At(w, HOST_BITS)
        <5>1. ASSUME At(g, k + 1) = At(w, HOST_BITS) PROVE FALSE
          <6>1. \A i \in 1 .. HOST_BITS : g[i] = w[i]  BY <2>1, <4>1, <4>5, <5>1, AtEqual
          <6> QED  BY <4>2, <4>3, <6>1
        <5> QED  BY <5>1
      <4> QED  BY <4>1, <4>4, <4>5, <4>6
    <3>3. Occupied(u, Beside(w, k + 1)) <=> Occupied(t, Beside(w, k + 1))  BY <1>7, <3>1, <3>2
    <3> QED  BY <1>1, <3>2, <3>3 DEF Occupied
  <2>3. At(w, k + 1) \in DOMAIN t
    <3>1. HOST_BITS \in 0 .. HOST_BITS /\ At(w, HOST_BITS) = w  BY AtEnd, BitsAssumed
    <3> QED  BY <2>1, <3>1 DEF TrieOK
  <2>4. UpFrom(k) <=> UpFrom(k + 1) /\ Occupied(t1, Beside(w, k + 1))
    <3>1. \A j \in k + 1 .. HOST_BITS : j = k + 1 \/ j \in k + 1 + 1 .. HOST_BITS  BY <2>1
    <3>2. k + 1 \in k + 1 .. HOST_BITS /\ \A j \in k + 1 + 1 .. HOST_BITS : j \in k + 1 .. HOST_BITS  BY <2>1
    <3> QED  BY <3>1, <3>2 DEF UpFrom
  <2>5. UpFrom(k + 1) <=> Occupied(u, At(w, k + 1))
    <3>1. CASE k + 1 < HOST_BITS
      <4>1. u[At(w, k + 1)] = UpFrom(k + 1)  BY <1>4, <2>1, <2>3, <3>1
      <4> QED  BY <1>1, <1>2, <2>3, <4>1 DEF Occupied
    <3>2. CASE k + 1 = HOST_BITS
      <4>1. At(w, k + 1) = w  BY <3>2, AtEnd
      <4>2. UpFrom(k + 1) <=> Occupied(t1, w)
        <5>1. k + 1 + 1 .. HOST_BITS = {}  BY <2>1, <3>2
        <5> QED  BY <5>1 DEF UpFrom
      <4> QED  BY <1>1, <1>2, <1>5, <4>1, <4>2 DEF Occupied
    <3> QED  BY <2>1, <3>1, <3>2
  <2> QED  BY <2>2, <2>4, <2>5
<1>9. ASSUME NEW h \in Hosts, NEW k \in 0 .. HOST_BITS - 1, At(h, k) \in DOMAIN u
      PROVE  u[At(h, k)] <=> Occupied(u, Append(At(h, k), 0)) /\ Occupied(u, Append(At(h, k), 1))
  <2>1. k \in 0 .. HOST_BITS /\ k < HOST_BITS /\ k + 1 \in 1 .. HOST_BITS /\ k + 1 \in 0 .. HOST_BITS
        /\ \A i \in 1 .. k : i \in 1 .. HOST_BITS /\ i # k + 1 /\ i \in 1 .. k + 1
    BY BitsAssumed
  <2>2. CASE At(h, k) = At(w, k)
    <3>1. u[At(h, k)] = UpFrom(k)  BY <1>1, <1>2, <1>4, <1>9, <2>1, <2>2
    <3>2. /\ Append(At(w, k), w[k + 1]) = At(w, k + 1)
          /\ Append(At(w, k), 1 - w[k + 1]) = Beside(w, k + 1)
          /\ w[k + 1] \in {0, 1}
      BY <2>1, BesideIs, HostsAre
    <3>3. \/ w[k + 1] = 0 /\ 1 - w[k + 1] = 1
          \/ w[k + 1] = 1 /\ 1 - w[k + 1] = 0
      BY <3>2
    <3> QED  BY <1>8, <2>2, <3>1, <3>2, <3>3
  <2>3. CASE At(h, k) # At(w, k)
    <3>1. ASSUME NEW bit \in {0, 1} PROVE Append(At(h, k), bit) # At(w, k + 1)
      <4> DEFINE g == Turned(h, k + 1, bit)
      <4>1. g \in Hosts /\ Append(At(h, k), bit) = At(g, k + 1)
            /\ \A i \in 1 .. HOST_BITS : i # k + 1 => g[i] = h[i]
        BY ChildIs
      <4> HIDE DEF g
      <4>2. PICK i \in 1 .. k : h[i] # w[i]  BY <2>1, <2>3, AtEqual
      <4>3. g[i] # w[i]  BY <2>1, <4>1, <4>2
      <4> QED  BY <2>1, <4>1, <4>3, AtEqual
    <3>2. u[At(h, k)] = t[At(h, k)]  BY <1>1, <1>2, <1>4, <1>9, <2>1, <2>3
    <3>3. t[At(h, k)] <=> Occupied(t, Append(At(h, k), 0)) /\ Occupied(t, Append(At(h, k), 1))
      BY <1>1, <1>2, <1>9 DEF TrieOK
    <3> QED  BY <1>7, <3>1, <3>2, <3>3
  <2> QED  BY <2>2, <2>3
<1>10. TrieOK(u)  BY <1>1, <1>2, <1>3, <1>9 DEF TrieOK
<1> QED  BY <1>1, <1>2, <1>6, <1>10 DEF u, t1

-----------------------------------------------------------------------------
(* DHCP: the flags lead to the next free leaf.                             *)

LEMMA AllBelow ==
    ASSUME NEW t, TrieOK(t), NEW h \in Hosts, NEW k \in 0 .. HOST_BITS, Occupied(t, At(h, k))
    PROVE  Occupied(t, h)
<1> DEFINE Bad == {i \in k .. HOST_BITS : ~Occupied(t, At(h, i))}
<1>1. Bad = {}
  <2>1. SUFFICES ASSUME Bad # {} PROVE FALSE  OBVIOUS
  <2>2. PICK i \in Bad : \A j \in Bad : i <= j
    <3>1. Bad \in SUBSET Nat  BY BitsAssumed
    <3> HIDE DEF Bad
    <3> QED  BY <2>1, <3>1, HasLowest
  <2>3. i \in k .. HOST_BITS /\ ~Occupied(t, At(h, i)) /\ i # k  OBVIOUS
  <2>4. i - 1 \in k .. HOST_BITS /\ i - 1 \in 0 .. HOST_BITS - 1 /\ i - 1 + 1 = i /\ ~(i <= i - 1)
        /\ i \in 1 .. HOST_BITS /\ i - 1 \in 0 .. HOST_BITS
    BY <2>3, BitsAssumed
  <2>5. Occupied(t, At(h, i - 1))  BY <2>2, <2>4
  <2> HIDE DEF Bad
  <2>6. h[i] \in {0, 1}  BY <2>4, HostsAre
  <2>7. Occupied(t, Append(At(h, i - 1), h[i]))
    <3>1. Occupied(t, Append(At(h, i - 1), 0)) /\ Occupied(t, Append(At(h, i - 1), 1))
      BY <2>4, <2>5 DEF TrieOK, Occupied
    <3> QED  BY <2>6, <3>1
  <2>8. Append(At(h, i - 1), h[i]) = At(h, i)  BY <2>4, <2>6, StepIs
  <2> QED  BY <2>3, <2>7, <2>8
<1>2. HOST_BITS \in k .. HOST_BITS  BY BitsAssumed
<1> QED  BY <1>1, <1>2, AtEnd

\* Where the way down goes at its step i.
GoesDown(t, h, i) == h[i] = IF Occupied(t, Append(At(h, i - 1), 0)) THEN 1 ELSE 0

LEMMA AWayDown ==
    ASSUME NEW t, NEW g \in Hosts, NEW k \in 0 .. HOST_BITS
    PROVE  \E h \in Hosts : At(h, k) = At(g, k) /\ \A i \in k + 1 .. HOST_BITS : GoesDown(t, h, i)
<1> DEFINE Goes(h, n) == At(h, k) = At(g, k) /\ \A i \in k + 1 .. HOST_BITS - n : GoesDown(t, h, i)
           S == {n \in 0 .. HOST_BITS - k : \E h \in Hosts : Goes(h, n)}
<1>1. HOST_BITS - k \in S
  <2>1. HOST_BITS - k \in 0 .. HOST_BITS - k /\ k + 1 .. HOST_BITS - (HOST_BITS - k) = {}  BY BitsAssumed
  <2>2. Goes(g, HOST_BITS - k)  BY <2>1
  <2> QED  BY <2>1, <2>2
<1>2. PICK n \in S : \A m \in S : n <= m
  <2>1. S \in SUBSET Nat  BY BitsAssumed
  <2> HIDE DEF S
  <2> QED  BY <1>1, <2>1, HasLowest
<1>3. n \in 0 .. HOST_BITS - k /\ \E h \in Hosts : Goes(h, n)  OBVIOUS
<1>4. n = 0
  <2>1. SUFFICES ASSUME n # 0 PROVE FALSE  OBVIOUS
  <2>2. PICK h \in Hosts : Goes(h, n)  BY <1>3
  <2> DEFINE m == HOST_BITS - n
             bit == IF Occupied(t, Append(At(h, m), 0)) THEN 1 ELSE 0
             f == Turned(h, m + 1, bit)
  <2>3. /\ m \in 0 .. HOST_BITS - 1 /\ m \in k .. HOST_BITS /\ HOST_BITS - (n - 1) = m + 1
        /\ n - 1 \in 0 .. HOST_BITS - k /\ ~(n <= n - 1) /\ m \in Nat /\ k <= m
        /\ m \in 0 .. HOST_BITS
    BY <1>3, <2>1, BitsAssumed
  <2>4. f \in Hosts /\ f[m + 1] = bit /\ \A i \in 1 .. HOST_BITS : i # m + 1 => f[i] = h[i]
    BY <2>3, ChildIs
  <2> HIDE DEF f, bit
  <2>5. \A j \in 0 .. m : At(f, j) = At(h, j)
    <3>1. \A j \in 0 .. m : j \in 0 .. HOST_BITS /\ \A i \in 1 .. j : i \in 1 .. HOST_BITS /\ i # m + 1
      BY <2>3, BitsAssumed
    <3> QED  BY <2>4, <3>1, AtEqual
  <2>6. \A i \in k + 1 .. m : GoesDown(t, f, i)
    <3>1. \A i \in k + 1 .. m : i - 1 \in 0 .. m /\ i \in 1 .. HOST_BITS /\ i # m + 1
      BY <2>3, BitsAssumed
    <3>2. \A i \in k + 1 .. m : GoesDown(t, h, i)  BY <2>2
    <3> QED  BY <2>4, <2>5, <3>1, <3>2 DEF GoesDown
  <2>7. GoesDown(t, f, m + 1)
    <3>1. m + 1 - 1 = m /\ m \in 0 .. m  BY <2>3
    <3> QED  BY <2>4, <2>5, <3>1 DEF GoesDown, bit
  <2>8. Goes(f, n - 1)
    <3>1. \A i \in k + 1 .. m + 1 : i = m + 1 \/ i \in k + 1 .. m  BY <2>3
    <3>2. k \in 0 .. m  BY <2>3
    <3> QED  BY <2>2, <2>3, <2>5, <2>6, <2>7, <3>1, <3>2
  <2>9. n - 1 \in S  BY <2>3, <2>4, <2>8
  <2> HIDE DEF S
  <2> QED  BY <1>2, <2>3, <2>9
<1>5. HOST_BITS - 0 = HOST_BITS  BY BitsAssumed
<1> QED  BY <1>3, <1>4, <1>5

LEMMA FirstDiffer ==
    ASSUME NEW f \in Hosts, NEW h \in Hosts, f # h
    PROVE  \E i \in 1 .. HOST_BITS : f[i] # h[i] /\ \A j \in 1 .. i - 1 : f[j] = h[j]
<1> DEFINE S == {i \in 1 .. HOST_BITS : f[i] # h[i]}
<1>1. S \in SUBSET Nat  BY BitsAssumed
<1>2. S # {}
  <2>1. f = [i \in 1 .. HOST_BITS |-> f[i]] /\ h = [i \in 1 .. HOST_BITS |-> h[i]]  BY DEF Hosts
  <2> QED  BY <2>1
<1>3. PICK i \in S : \A j \in S : i <= j
  <2> HIDE DEF S
  <2> QED  BY <1>1, <1>2, HasLowest
<1>4. \A j \in 1 .. i - 1 : j \in 1 .. HOST_BITS /\ ~(i <= j)  BY BitsAssumed
<1> QED  BY <1>3, <1>4

LEMMA BelowIs ==
    ASSUME NEW f \in Hosts, NEW h \in Hosts
    PROVE  /\ Pool!Below(f, h) <=> \E i \in 1 .. HOST_BITS : /\ f[i] = 0 /\ h[i] = 1
                                                        /\ \A j \in 1 .. i - 1 : f[j] = h[j]
           /\ Pool!Below(f, h) => ~Pool!Below(h, f)
<1>1. DOMAIN f = 1 .. HOST_BITS /\ DOMAIN h = 1 .. HOST_BITS  BY DEF Hosts
<1>2. \A i \in 1 .. HOST_BITS : f[i] \in {0, 1} /\ h[i] \in {0, 1}  BY HostsAre
<1>4. Pool!Below(f, h) <=> \E i \in 1 .. HOST_BITS : /\ f[i] = 0 /\ h[i] = 1
                                                 /\ \A j \in 1 .. i - 1 : f[j] = h[j]
  <2>1. Pool!Below(f, h) <=> \E i \in 1 .. HOST_BITS : f[i] < h[i] /\ \A j \in 1 .. i - 1 : f[j] = h[j]
    BY <1>1 DEF Pool!Below
  <2>2. ASSUME Pool!Below(f, h)
        PROVE  \E i \in 1 .. HOST_BITS : f[i] = 0 /\ h[i] = 1 /\ \A j \in 1 .. i - 1 : f[j] = h[j]
    <3>1. PICK i \in 1 .. HOST_BITS : f[i] < h[i] /\ \A j \in 1 .. i - 1 : f[j] = h[j]  BY <2>1, <2>2
    <3>2. f[i] \in {0, 1} /\ h[i] \in {0, 1}  BY <1>2
    <3>3. f[i] = 0 /\ h[i] = 1  BY <3>1, <3>2
    <3> QED  BY <3>1, <3>3
  <2>3. ASSUME NEW i \in 1 .. HOST_BITS, f[i] = 0, h[i] = 1, \A j \in 1 .. i - 1 : f[j] = h[j]
        PROVE  Pool!Below(f, h)
    <3>1. f[i] < h[i]  BY <2>3
    <3> QED  BY <2>1, <2>3, <3>1
  <2> QED  BY <2>2, <2>3
<1>5. Pool!Below(h, f) <=> \E i \in 1 .. HOST_BITS : /\ h[i] = 0 /\ f[i] = 1
                                                 /\ \A j \in 1 .. i - 1 : h[j] = f[j]
  <2>1. Pool!Below(h, f) <=> \E i \in 1 .. HOST_BITS : h[i] < f[i] /\ \A j \in 1 .. i - 1 : h[j] = f[j]
    BY <1>1 DEF Pool!Below
  <2>2. ASSUME Pool!Below(h, f)
        PROVE  \E i \in 1 .. HOST_BITS : h[i] = 0 /\ f[i] = 1 /\ \A j \in 1 .. i - 1 : h[j] = f[j]
    <3>1. PICK i \in 1 .. HOST_BITS : h[i] < f[i] /\ \A j \in 1 .. i - 1 : h[j] = f[j]  BY <2>1, <2>2
    <3>2. f[i] \in {0, 1} /\ h[i] \in {0, 1}  BY <1>2
    <3>3. h[i] = 0 /\ f[i] = 1  BY <3>1, <3>2
    <3> QED  BY <3>1, <3>3
  <2>3. ASSUME NEW i \in 1 .. HOST_BITS, h[i] = 0, f[i] = 1, \A j \in 1 .. i - 1 : h[j] = f[j]
        PROVE  Pool!Below(h, f)
    <3>1. h[i] < f[i]  BY <2>3
    <3> QED  BY <2>1, <2>3, <3>1
  <2> QED  BY <2>2, <2>3
<1>6. ASSUME Pool!Below(f, h), Pool!Below(h, f) PROVE FALSE
  <2>1. PICK i \in 1 .. HOST_BITS : f[i] = 0 /\ h[i] = 1 /\ \A j \in 1 .. i - 1 : f[j] = h[j]  BY <1>4, <1>6
  <2>2. PICK m \in 1 .. HOST_BITS : h[m] = 0 /\ f[m] = 1 /\ \A j \in 1 .. m - 1 : h[j] = f[j]  BY <1>5, <1>6
  <2>3. i = m \/ i \in 1 .. m - 1 \/ m \in 1 .. i - 1  BY BitsAssumed
  <2> QED  BY <2>1, <2>2, <2>3
<1> QED  BY <1>4, <1>6

\* FillFirstFree finds the lowest free leaf below a node that is not occupied.
LEMMA FilledFirst ==
    ASSUME NEW t, TrieOK(t), NEW g \in Hosts, NEW k \in 0 .. HOST_BITS, ~Occupied(t, At(g, k))
    PROVE  LET h == FillFirstFree(t, At(g, k))
           IN  /\ h \in Hosts /\ At(h, k) = At(g, k) /\ ~Occupied(t, h)
               /\ \A f \in Hosts : At(f, k) = At(g, k) /\ ~Occupied(t, f) => f = h \/ Pool!Below(h, f)
<1> DEFINE h == FillFirstFree(t, At(g, k))
<1>1. Len(At(g, k)) = k  BY AtIs
<1>2. h \in Hosts /\ At(h, k) = At(g, k) /\ \A i \in k + 1 .. HOST_BITS : GoesDown(t, h, i)
  <2> DEFINE Way(x) == /\ IsPrefix(At(g, k), x)
                       /\ \A i \in Len(At(g, k)) + 1 .. HOST_BITS :
                            x[i] = IF Occupied(t, Append(SubSeq(x, 1, i - 1), 0)) THEN 1 ELSE 0
  <2>1. \A x \in Hosts : Way(x) <=> At(x, k) = At(g, k) /\ \A i \in k + 1 .. HOST_BITS : GoesDown(t, x, i)
    <3>1. \A x \in Hosts : IsPrefix(At(g, k), x) <=> At(x, k) = At(g, k)  BY OnTheWay
    <3> QED  BY <1>1, <3>1 DEF GoesDown, At
  <2>2. h = CHOOSE x \in Hosts : Way(x)  BY DEF FillFirstFree
  <2> HIDE DEF Way, h
  <2>3. \E x \in Hosts : Way(x)  BY <2>1, AWayDown
  <2>4. h \in Hosts /\ Way(h)  BY <2>2, <2>3
  <2> QED  BY <2>1, <2>4
<1> HIDE DEF h
<1>3. \A i \in 1 .. HOST_BITS : h[i] \in {0, 1} /\ i - 1 \in 0 .. HOST_BITS - 1 /\ i - 1 + 1 = i
                              /\ i \in 0 .. HOST_BITS /\ i - 1 \in 0 .. HOST_BITS
  BY <1>2, HostsAre, BitsAssumed
<1>4. ~Occupied(t, h)
  <2> DEFINE S == {i \in k .. HOST_BITS : Occupied(t, At(h, i))}
  <2>1. S = {}
    <3>1. SUFFICES ASSUME S # {} PROVE FALSE  OBVIOUS
    <3>2. PICK i \in S : \A j \in S : i <= j
      <4>1. S \in SUBSET Nat  BY BitsAssumed
      <4> HIDE DEF S
      <4> QED  BY <3>1, <4>1, HasLowest
    <3>3. i \in k .. HOST_BITS /\ Occupied(t, At(h, i))  OBVIOUS
    <3>4. i # k  BY <1>2, <3>3
    <3>5. i - 1 \in k .. HOST_BITS /\ ~(i <= i - 1) /\ i \in 1 .. HOST_BITS /\ i \in k + 1 .. HOST_BITS
      BY <3>3, <3>4, BitsAssumed
    <3>6. ~Occupied(t, At(h, i - 1))  BY <3>2, <3>5
    <3> HIDE DEF S
    <3>7. Append(At(h, i - 1), h[i]) = At(h, i)  BY <1>2, <1>3, <3>5, StepIs
    <3>8. At(h, i - 1) \in DOMAIN t
      <4>1. i - 1 \in 0 .. i /\ i \in 0 .. HOST_BITS  BY <3>5, BitsAssumed
      <4> QED  BY <1>2, <3>3, <4>1 DEF TrieOK, Occupied
    <3>9. ~(Occupied(t, Append(At(h, i - 1), 0)) /\ Occupied(t, Append(At(h, i - 1), 1)))
      <4>1. i - 1 \in 0 .. HOST_BITS - 1  BY <1>3, <3>5
      <4> QED  BY <1>2, <3>6, <3>8, <4>1 DEF TrieOK, Occupied
    <3>10. GoesDown(t, h, i)  BY <1>2, <3>5
    <3> QED  BY <3>3, <3>7, <3>9, <3>10 DEF GoesDown
  <2>2. HOST_BITS \in k .. HOST_BITS  BY BitsAssumed
  <2> QED  BY <1>2, <2>1, <2>2, AtEnd
<1>5. ASSUME NEW f \in Hosts, At(f, k) = At(g, k), ~Occupied(t, f), f # h PROVE Pool!Below(h, f)
  <2>1. PICK i \in 1 .. HOST_BITS : f[i] # h[i] /\ \A j \in 1 .. i - 1 : f[j] = h[j]
    BY <1>2, <1>5, FirstDiffer
  <2>2. i \in k + 1 .. HOST_BITS
    <3>1. At(f, k) = At(h, k)  BY <1>2, <1>5
    <3>2. \A j \in 1 .. k : f[j] = h[j]  BY <1>2, <3>1, AtEqual
    <3>3. i \notin 1 .. k  BY <2>1, <3>2
    <3> QED  BY <3>3, BitsAssumed
  <2>3. f[i] \in {0, 1} /\ h[i] \in {0, 1}  BY <1>2, HostsAre
  <2>4. At(f, i - 1) = At(h, i - 1)
    <3>1. i - 1 \in 0 .. HOST_BITS  BY <1>3
    <3> QED  BY <1>2, <2>1, <3>1, AtEqual
  <2>5. h[i] # 1
    <3>1. SUFFICES ASSUME h[i] = 1 PROVE FALSE  OBVIOUS
    <3>2. Occupied(t, Append(At(h, i - 1), 0))  BY <1>2, <2>2, <3>1 DEF GoesDown
    <3>3. f[i] = 0  BY <2>1, <2>3, <3>1
    <3>4. Append(At(f, i - 1), f[i]) = At(f, i)  BY <1>2, <1>3, <2>3, StepIs
    <3>5. Occupied(t, At(f, i)) /\ i \in 0 .. HOST_BITS  BY <1>3, <2>4, <3>2, <3>3, <3>4
    <3> QED  BY <1>5, <3>5, AllBelow
  <2>6. h[i] = 0 /\ f[i] = 1  BY <2>1, <2>3, <2>5
  <2> QED  BY <1>2, <2>1, <2>6, BelowIs
<1> QED  BY <1>2, <1>4, <1>5 DEF h

LEMMA MaxIs == ASSUME NEW S \in SUBSET (1 .. HOST_BITS), S # {} PROVE Max(S) \in S /\ \A y \in S : Max(S) >= y
<1> DEFINE T == {HOST_BITS - x : x \in S}
<1>1. T \in SUBSET Nat /\ T # {}
  <2>1. \A x \in S : x \in 1 .. HOST_BITS /\ HOST_BITS - x \in Nat  BY BitsAssumed
  <2>2. \E x : x \in S  OBVIOUS
  <2> QED  BY <2>1, <2>2
<1>2. PICK z \in T : \A y \in T : z <= y
  <2> HIDE DEF T
  <2> QED  BY <1>1, HasLowest
<1>3. PICK x \in S : z = HOST_BITS - x  OBVIOUS
<1>4. \A y \in S : HOST_BITS - x <= HOST_BITS - y  BY <1>2, <1>3
<1>5. \A y \in S : x >= y  BY <1>4, BitsAssumed
<1> QED  BY <1>5 DEF Max

\* TrieGetFreeNext finds the lowest free leaf above the word, and none only if none is free.
LEMMA NextFree ==
    ASSUME NEW t, TrieOK(t), NEW w \in Hosts
    PROVE  \/ /\ TrieGetFreeNext(t, w) = {}
              /\ \A f \in Hosts : Pool!Below(w, f) => Occupied(t, f)
           \/ \E h \in Hosts :
                /\ TrieGetFreeNext(t, w) = {h} /\ ~Occupied(t, h) /\ Pool!Below(w, h)
                /\ \A f \in Hosts : Pool!Below(w, f) /\ ~Occupied(t, f) => f = h \/ Pool!Below(h, f)
<1>1. ASSUME NEW i \in 1 .. HOST_BITS, w[i] = 0
      PROVE  /\ Turned(w, i, 1) \in Hosts /\ Beside(w, i) = At(Turned(w, i, 1), i)
             /\ Turned(w, i, 1)[i] = 1 /\ \A j \in 1 .. i - 1 : Turned(w, i, 1)[j] = w[j]
             /\ i \in 0 .. HOST_BITS
  <2>1. i - 1 \in 0 .. HOST_BITS - 1 /\ i - 1 + 1 = i /\ i \in 0 .. HOST_BITS
        /\ \A j \in 1 .. i - 1 : j \in 1 .. HOST_BITS /\ j # i
    BY BitsAssumed
  <2>2. Beside(w, i) = Append(At(w, i - 1), 1)  BY <1>1 DEF Beside, At
  <2>3. /\ Append(At(w, i - 1), 1) = At(Turned(w, i, 1), i) /\ Turned(w, i, 1) \in Hosts
        /\ Turned(w, i, 1)[i] = 1
        /\ \A j \in 1 .. HOST_BITS : j # i => Turned(w, i, 1)[j] = w[j]
    BY StepIs
  <2> QED  BY <2>1, <2>2, <2>3
\* A free leaf above is below the right child of a turn.
<1>2. ASSUME NEW f \in Hosts, Pool!Below(w, f), ~Occupied(t, f)
      PROVE  \E i \in Turns(t, w) : f[i] = 1 /\ \A j \in 1 .. i - 1 : f[j] = w[j]
  <2>1. PICK i \in 1 .. HOST_BITS : w[i] = 0 /\ f[i] = 1 /\ \A j \in 1 .. i - 1 : w[j] = f[j]
    BY <1>2, BelowIs
  <2>2. \A j \in 1 .. i : j = i \/ j \in 1 .. i - 1  BY BitsAssumed
  <2>3. At(f, i) = Beside(w, i) /\ i \in 0 .. HOST_BITS
    <3>1. \A j \in 1 .. i : f[j] = Turned(w, i, 1)[j]  BY <1>1, <2>1, <2>2
    <3> QED  BY <1>1, <2>1, <3>1, AtEqual
  <2>4. ~Occupied(t, Beside(w, i))  BY <1>2, <2>3, AllBelow
  <2> QED  BY <2>1, <2>4 DEF Turns
<1>3. CASE Turns(t, w) = {}  BY <1>2, <1>3 DEF TrieGetFreeNext
<1>4. CASE Turns(t, w) # {}
  <2> DEFINE i == Max(Turns(t, w))
             g == Turned(w, i, 1)
             h == FillFirstFree(t, Beside(w, i))
  <2>1. /\ i \in Turns(t, w) /\ i \in 1 .. HOST_BITS /\ w[i] = 0 /\ ~Occupied(t, Beside(w, i))
        /\ \A y \in Turns(t, w) : i >= y
    <3>1. Turns(t, w) \in SUBSET (1 .. HOST_BITS)  BY DEF Turns
    <3>2. i \in Turns(t, w) /\ \A y \in Turns(t, w) : i >= y  BY <1>4, <3>1, MaxIs
    <3> QED  BY <3>1, <3>2 DEF Turns
  <2>2. TrieGetFreeNext(t, w) = {h}  BY <1>4 DEF TrieGetFreeNext
  <2> HIDE DEF i
  <2>3. /\ g \in Hosts /\ Beside(w, i) = At(g, i) /\ g[i] = 1 /\ i \in 0 .. HOST_BITS
        /\ \A j \in 1 .. i - 1 : g[j] = w[j]
    BY <1>1, <2>1
  <2> HIDE DEF g
  <2>4. /\ h \in Hosts /\ At(h, i) = At(g, i) /\ ~Occupied(t, h)
        /\ \A f \in Hosts : At(f, i) = At(g, i) /\ ~Occupied(t, f) => f = h \/ Pool!Below(h, f)
    BY <2>1, <2>3, FilledFirst
  <2> HIDE DEF h
  <2>5. h[i] = 1 /\ \A j \in 1 .. i - 1 : h[j] = w[j]
    <3>1. \A j \in 1 .. i : h[j] = g[j]  BY <2>3, <2>4, AtEqual
    <3>2. i \in 1 .. i /\ \A j \in 1 .. i - 1 : j \in 1 .. i  BY <2>1, BitsAssumed
    <3> QED  BY <2>3, <3>1, <3>2
  <2>6. Pool!Below(w, h)  BY <2>1, <2>4, <2>5, BelowIs
  <2>7. ASSUME NEW f \in Hosts, Pool!Below(w, f), ~Occupied(t, f) PROVE f = h \/ Pool!Below(h, f)
    <3>1. PICK m \in Turns(t, w) : f[m] = 1 /\ \A j \in 1 .. m - 1 : f[j] = w[j]  BY <1>2, <2>7
    <3>2. m \in 1 .. HOST_BITS /\ w[m] = 0 /\ i >= m  BY <2>1, <3>1 DEF Turns
    <3>3. CASE m = i
      <4>1. \A j \in 1 .. i : j = i \/ j \in 1 .. i - 1  BY <2>1, BitsAssumed
      <4>2. \A j \in 1 .. i : f[j] = g[j]  BY <2>3, <3>1, <3>3, <4>1
      <4>3. At(f, i) = At(g, i)  BY <2>3, <4>2, AtEqual
      <4> QED  BY <2>4, <2>7, <4>3
    <3>4. CASE m # i
      <4>1. m \in 1 .. i - 1 /\ \A j \in 1 .. m - 1 : j \in 1 .. i - 1  BY <2>1, <3>2, <3>4, BitsAssumed
      <4>2. h[m] = 0 /\ \A j \in 1 .. m - 1 : h[j] = f[j]  BY <2>5, <3>1, <3>2, <4>1
      <4> QED  BY <2>4, <3>1, <3>2, <4>2, BelowIs
    <3> QED  BY <3>3, <3>4
  <2> QED  BY <2>2, <2>4, <2>6, <2>7
<1> QED  BY <1>3, <1>4

-----------------------------------------------------------------------------
(* DHCP: every step is one of the abstract pool of addresses.              *)

DHCPInv == TrieOK(trieNodes) /\ IsFiniteSet(Leased) /\ trieCount = Cardinality(Leased)

\* What the abstract pool's reply is.
PoolReply ==
    IF dhcpReply.status = "SUCCESS"
    THEN [status |-> "SUCCESS",
          address |-> IF InSubnet(dhcpReply.ip) THEN ExtractHostPart(dhcpReply.ip) ELSE <<>>]
    ELSE dhcpReply

LEMMA PoolCardinality == \A S : Pool!Cardinality(S) = Cardinality(S)
BY DEF Pool!Cardinality, Cardinality, Pool!IsFiniteSet, IsFiniteSet

LEMMA LastOf ==
    ASSUME NEW s \in Seq(Nat), NEW a \in Nat, NEW b \in Nat, Len(s) = a + b
    PROVE  /\ SubSeq(s, a + 1, a + b) \in Seq(Nat) /\ Len(SubSeq(s, a + 1, a + b)) = b
           /\ \A i \in 1 .. b : SubSeq(s, a + 1, a + b)[i] = s[a + i]
<1>1. Len(SubSeq(s, a + 1, a + b)) = b
  <2>1. a + 1 \in Int /\ a + b \in Int  OBVIOUS
  <2>2. b = 0 => a + 1 > a + b  OBVIOUS
  <2> QED  BY <2>1, <2>2
<1>2. \A i \in 1 .. b : SubSeq(s, a + 1, a + b)[i] = s[a + i] /\ s[a + i] \in Nat
  <2> SUFFICES ASSUME NEW i \in 1 .. b PROVE SubSeq(s, a + 1, a + b)[i] = s[a + i] /\ s[a + i] \in Nat
    OBVIOUS
  <2>1. i \in 1 .. Len(SubSeq(s, a + 1, a + b)) /\ a + i \in 1 .. Len(s)  BY <1>1
  <2>2. SubSeq(s, a + 1, a + b)[i] = s[a + 1 + i - 1]  BY <2>1
  <2>3. a + 1 + i - 1 = a + i  OBVIOUS
  <2> QED  BY <2>1, <2>2, <2>3
<1>3. SubSeq(s, a + 1, a + b) \in Seq(Nat)
  <2>1. a + 1 \in 1 .. Len(s) + 1 /\ a + b \in 0 .. Len(s)  OBVIOUS
  <2> QED  BY <2>1
<1> QED  BY <1>1, <1>2, <1>3

LEMMA JoinedIs ==
    ASSUME NEW s \in Seq(Nat), NEW u \in Seq(Nat)
    PROVE  /\ s \o u \in Seq(Nat) /\ Len(s \o u) = Len(s) + Len(u)
           /\ \A i \in 1 .. Len(s) : (s \o u)[i] = s[i]
           /\ \A i \in 1 .. Len(u) : (s \o u)[Len(s) + i] = u[i]
OBVIOUS

LEMMA HostPartIs ==
    ASSUME NEW host \in Hosts
    PROVE  InSubnet(SUBNET \o host) /\ ExtractHostPart(SUBNET \o host) = host
<1> DEFINE ip == SUBNET \o host
<1>1. SUBNET \in Seq(Nat) /\ Len(SUBNET) = NET_BITS /\ NET_BITS \in Nat
  <2>1. \A i \in 1 .. NET_BITS : i % 2 \in Nat  OBVIOUS
  <2> QED  BY <2>1, BitsAssumed DEF SUBNET
<1>2. host \in Seq(Nat) /\ Len(host) = HOST_BITS /\ HOST_BITS \in Nat
  <2>1. \A i \in 1 .. HOST_BITS : host[i] \in Nat  BY HostsAre
  <2>2. host = [i \in 1 .. HOST_BITS |-> host[i]]  BY DEF Hosts
  <2> QED  BY <2>1, <2>2, BitsAssumed
<1>3. /\ ip \in Seq(Nat) /\ Len(ip) = NET_BITS + HOST_BITS
      /\ \A i \in 1 .. NET_BITS : ip[i] = SUBNET[i]
      /\ \A i \in 1 .. HOST_BITS : ip[NET_BITS + i] = host[i]
  <2>1. SUBNET \in Seq(Nat) /\ host \in Seq(Nat)  BY <1>1, <1>2
  <2>2. /\ ip \in Seq(Nat) /\ Len(ip) = Len(SUBNET) + Len(host)
        /\ \A i \in 1 .. Len(SUBNET) : ip[i] = SUBNET[i]
        /\ \A i \in 1 .. Len(host) : ip[Len(SUBNET) + i] = host[i]
    BY <2>1, JoinedIs
  <2> HIDE DEF ip
  <2> QED  BY <1>1, <1>2, <2>2
<1> HIDE DEF ip
<1>4. InSubnet(ip)
  <2>1. SubSeq(SUBNET, 1, NET_BITS) = SUBNET  BY <1>1
  <2>2. SubSeq(ip, 1, NET_BITS) \in Seq(Nat) /\ Len(SubSeq(ip, 1, NET_BITS)) = NET_BITS
        /\ \A i \in 1 .. NET_BITS : SubSeq(ip, 1, NET_BITS)[i] = ip[i]
    BY <1>1, <1>2, <1>3
  <2>3. SubSeq(ip, 1, NET_BITS) = SUBNET  BY <1>1, <1>3, <2>2
  <2> QED  BY <1>1, <1>2, <1>3, <2>1, <2>3 DEF InSubnet, IsPrefix
<1>5. ExtractHostPart(ip) = host
  <2> DEFINE part == SubSeq(ip, NET_BITS + 1, NET_BITS + HOST_BITS)
  <2>1. part \in Seq(Nat) /\ Len(part) = HOST_BITS /\ \A i \in 1 .. HOST_BITS : part[i] = ip[NET_BITS + i]
    <3>1. ip \in Seq(Nat) /\ NET_BITS \in Nat /\ HOST_BITS \in Nat /\ Len(ip) = NET_BITS + HOST_BITS
      BY <1>1, <1>2, <1>3
    <3> QED  BY <3>1, LastOf, Zenon
  <2> HIDE DEF part
  <2>2. Len(part) = Len(host) /\ \A i \in 1 .. Len(host) : part[i] = host[i]  BY <1>2, <1>3, <2>1
  <2>3. part = host  BY <1>2, <2>1, <2>2
  <2> QED  BY <1>3, <2>3 DEF ExtractHostPart, part
<1> QED  BY <1>4, <1>5 DEF ip

\* The leased addresses after a leaf is set or cleared.
LEMMA LeafInserted ==
    ASSUME NEW t, TrieOK(t), NEW w \in Hosts
    PROVE  /\ TrieOK(TrieInsert(t, w))
           /\ \A h \in Hosts : Occupied(TrieInsert(t, w), h) <=> h = w \/ Occupied(t, h)
<1> DEFINE u == Grown(t, w, HOST_BITS)
<1>1. HOST_BITS \in 0 .. HOST_BITS /\ At(w, HOST_BITS) = w  BY BitsAssumed, AtEnd
<1>2. TrieOK(u) /\ w \in DOMAIN u /\ \A path : Occupied(u, path) <=> Occupied(t, path)
  BY <1>1, GrownIs
<1> HIDE DEF u
<1> DEFINE x == Updated([u EXCEPT ![w] = TRUE], w)
<1>3. TrieOK(x) /\ \A h \in Hosts : Occupied(x, h) <=> IF h = w THEN TRUE ELSE Occupied(u, h)
  BY <1>2, UpdatedIs
<1>4. TrieInsert(t, w) = x  BY DEF TrieInsert, u
<1> HIDE DEF x
<1> QED  BY <1>2, <1>3, <1>4

LEMMA LeafFreed ==
    ASSUME NEW t, TrieOK(t), NEW w \in Hosts, Occupied(t, w)
    PROVE  /\ TrieOK(TrieFree(t, w))
           /\ \A h \in Hosts : Occupied(TrieFree(t, w), h) <=> h # w /\ Occupied(t, h)
<1>1. w \in DOMAIN t  BY DEF Occupied
<1> DEFINE x == Updated([t EXCEPT ![w] = FALSE], w)
<1>2. TrieOK(x) /\ \A h \in Hosts : Occupied(x, h) <=> IF h = w THEN FALSE ELSE Occupied(t, h)
  BY <1>1, UpdatedIs
<1>3. TrieFree(t, w) = x  BY DEF TrieFree
<1> HIDE DEF x
<1> QED  BY <1>2, <1>3

\* The addresses that InitAddresses takes, by their places in the order.
LEMMA TakenAre == Pool!Taken = {ZeroHost, ServerHost, BroadcastHost}
<1>1. ZeroHost \in Hosts /\ ServerHost \in Hosts /\ BroadcastHost \in Hosts
  BY DEF Hosts, ZeroHost, ServerHost, BroadcastHost
<1>2. /\ HOST_BITS \in 1 .. HOST_BITS
      /\ \A i \in 1 .. HOST_BITS : /\ BroadcastHost[i] = 1
                                   /\ i < HOST_BITS => ServerHost[i] = 1
                                   /\ i = HOST_BITS => ServerHost[i] = 0
  BY BitsAssumed DEF ServerHost, BroadcastHost
<1>3. ASSUME NEW b \in Hosts, b # BroadcastHost
      PROVE  /\ Pool!Below(b, BroadcastHost)
             /\ b # ServerHost => Pool!Below(b, ServerHost)
  <2>1. PICK i \in 1 .. HOST_BITS : b[i] # 1 /\ \A j \in 1 .. i - 1 : b[j] = 1
    <3>1. PICK i \in 1 .. HOST_BITS :
                b[i] # BroadcastHost[i] /\ \A j \in 1 .. i - 1 : b[j] = BroadcastHost[j]
      BY <1>1, <1>3, FirstDiffer
    <3>2. \A j \in 1 .. i - 1 : j \in 1 .. HOST_BITS  BY BitsAssumed
    <3> QED  BY <1>2, <3>1, <3>2
  <2>2. b[i] = 0  BY <2>1, HostsAre
  <2>3. \A j \in 1 .. i - 1 : j \in 1 .. HOST_BITS /\ j < HOST_BITS  BY BitsAssumed
  <2>4. Pool!Below(b, BroadcastHost)
    <3>1. BroadcastHost[i] = 1 /\ \A j \in 1 .. i - 1 : b[j] = BroadcastHost[j]  BY <1>2, <2>1, <2>3
    <3> QED  BY <1>1, <2>2, <3>1, BelowIs
  <2>5. CASE i < HOST_BITS
    <3>1. ServerHost[i] = 1 /\ \A j \in 1 .. i - 1 : b[j] = ServerHost[j]  BY <1>2, <2>1, <2>3, <2>5
    <3>2. Pool!Below(b, ServerHost)  BY <1>1, <2>2, <3>1, BelowIs
    <3> QED  BY <2>4, <3>2
  <2>6. CASE i = HOST_BITS
    <3>1. ASSUME b # ServerHost PROVE FALSE
      <4>1. PICK m \in 1 .. HOST_BITS : b[m] # ServerHost[m]  BY <1>1, <3>1, FirstDiffer
      <4>2. m = HOST_BITS \/ (m < HOST_BITS /\ m \in 1 .. i - 1)  BY <2>6, BitsAssumed
      <4>3. CASE m = HOST_BITS  BY <1>2, <2>2, <2>6, <4>1, <4>3
      <4>4. CASE m < HOST_BITS /\ m \in 1 .. i - 1  BY <1>2, <2>1, <4>1, <4>4
      <4> QED  BY <4>2, <4>3, <4>4
    <3> QED  BY <2>4, <3>1
  <2>7. i < HOST_BITS \/ i = HOST_BITS  BY BitsAssumed
  <2> QED  BY <2>5, <2>6, <2>7
<1>4. \A a \in Hosts : Pool!IsLast(a) <=> a = BroadcastHost
  <2>1. ASSUME NEW a \in Hosts, Pool!IsLast(a), a # BroadcastHost PROVE FALSE
    <3>1. Pool!Below(a, BroadcastHost) /\ Pool!Below(BroadcastHost, a)  BY <1>1, <1>3, <2>1 DEF Pool!IsLast
    <3> QED  BY <1>1, <3>1, BelowIs
  <2>2. Pool!IsLast(BroadcastHost)  BY <1>3 DEF Pool!IsLast
  <2> QED  BY <2>1, <2>2
<1>5. ServerHost # BroadcastHost  BY <1>2
<1>6. \A a \in Hosts : Pool!IsLastButOne(a) <=> a = ServerHost
  <2>1. ASSUME NEW a \in Hosts, Pool!IsLastButOne(a), a # ServerHost PROVE FALSE
    <3>1. a # BroadcastHost  BY <1>4, <2>1 DEF Pool!IsLastButOne
    <3>2. Pool!Below(a, ServerHost)  BY <1>3, <2>1, <3>1
    <3>3. ServerHost = a \/ Pool!Below(ServerHost, a) \/ Pool!IsLast(ServerHost)
      BY <1>1, <2>1 DEF Pool!IsLastButOne
    <3>4. Pool!Below(ServerHost, a)  BY <1>1, <1>4, <1>5, <2>1, <3>3
    <3> QED  BY <1>1, <3>2, <3>4, BelowIs
  <2>2. Pool!IsLastButOne(ServerHost)  BY <1>1, <1>3, <1>4, <1>5 DEF Pool!IsLastButOne
  <2> QED  BY <2>1, <2>2
<1> QED  BY <1>1, <1>4, <1>6 DEF Pool!Taken

LEMMA DHCPBegins == DHCPInit => DHCPInv /\ Pool!Init
<1> SUFFICES ASSUME DHCPInit PROVE DHCPInv /\ Pool!Init  OBVIOUS
<1> DEFINE t0 == [path \in {Root} |-> FALSE]
           Three == {ZeroHost, ServerHost, BroadcastHost}
<1>1. /\ ZeroHost \in Hosts /\ ServerHost \in Hosts /\ BroadcastHost \in Hosts
      /\ ZeroHost # ServerHost /\ ZeroHost # BroadcastHost /\ ServerHost # BroadcastHost
  <2>1. /\ ZeroHost \in Hosts /\ ServerHost \in Hosts /\ BroadcastHost \in Hosts
    BY DEF Hosts, ZeroHost, ServerHost, BroadcastHost
  <2>2. 1 \in 1 .. HOST_BITS /\ HOST_BITS \in 1 .. HOST_BITS /\ 1 < HOST_BITS  BY BitsAssumed
  <2>3. ZeroHost[1] = 0 /\ ServerHost[1] = 1 /\ BroadcastHost[1] = 1
        /\ ServerHost[HOST_BITS] = 0 /\ BroadcastHost[HOST_BITS] = 1
    BY <2>2 DEF ZeroHost, ServerHost, BroadcastHost
  <2> QED  BY <2>1, <2>3
<1>2. TrieOK(t0) /\ \A path : ~Occupied(t0, path)
  <2>1. \A path : ~Occupied(t0, path)  BY DEF Occupied
  <2>2. \A path \in DOMAIN t0 : t0[path] = FALSE /\ path = Root  OBVIOUS
  <2>3. Root \in DOMAIN t0  OBVIOUS
  <2> HIDE DEF t0
  <2>4. ASSUME NEW h \in Hosts, NEW k \in 0 .. HOST_BITS, At(h, k) \in DOMAIN t0, NEW j \in 0 .. k
        PROVE  At(h, j) \in DOMAIN t0
    <3>1. At(h, k) = At(h, 0) /\ 0 \in 0 .. HOST_BITS  BY <2>2, <2>4, AtEnd, BitsAssumed
    <3>2. k = 0  BY <3>1, AtEqual
    <3>3. j = 0  BY <3>2
    <3> QED  BY <2>3, <3>3, AtEnd
  <2> QED  BY <2>1, <2>2, <2>4, BitsAssumed DEF TrieOK
<1> HIDE DEF t0
<1> DEFINE t1 == TrieInsert(t0, ZeroHost)
           t2 == TrieInsert(t1, ServerHost)
           t3 == TrieInsert(t2, BroadcastHost)
<1>3. TrieOK(t1) /\ \A h \in Hosts : Occupied(t1, h) <=> h = ZeroHost  BY <1>1, <1>2, LeafInserted
<1> HIDE DEF t1
<1>4. TrieOK(t2) /\ \A h \in Hosts : Occupied(t2, h) <=> h = ServerHost \/ h = ZeroHost
  BY <1>1, <1>3, LeafInserted
<1> HIDE DEF t2
<1>5. TrieOK(t3) /\ \A h \in Hosts : Occupied(t3, h) <=> h \in Three  BY <1>1, <1>4, LeafInserted
<1> HIDE DEF t3
<1>6. trieNodes = t3 /\ trieCount = 3 /\ dhcpReply = [status |-> "NONE"]
  BY DEF DHCPInit, InitialTrie, t0, t1, t2, t3
<1>7. Leased = Three  BY <1>1, <1>5, <1>6 DEF Leased
<1>8. IsFiniteSet(Three) /\ Cardinality(Three) = 3
  <2>1. IsFiniteSet({ZeroHost}) /\ Cardinality({ZeroHost}) = 1  BY FS_Singleton
  <2> DEFINE S == {ZeroHost} \cup {ServerHost}
  <2>2. IsFiniteSet(S) /\ Cardinality(S) = IF ServerHost \in {ZeroHost} THEN 1 ELSE 1 + 1
    BY <2>1, FS_AddElement
  <2>3. ServerHost \notin {ZeroHost} /\ BroadcastHost \notin S /\ Three = S \cup {BroadcastHost}  BY <1>1
  <2> HIDE DEF S, Three
  <2>4. IsFiniteSet(S) /\ Cardinality(S) = 2  BY <2>2, <2>3
  <2>5. IsFiniteSet(S \cup {BroadcastHost})
        /\ Cardinality(S \cup {BroadcastHost}) = IF BroadcastHost \in S THEN Cardinality(S) ELSE Cardinality(S) + 1
    BY <2>4, FS_AddElement
  <2> QED  BY <2>3, <2>4, <2>5
<1>9. PoolReply = [status |-> "NONE"]  BY <1>6 DEF PoolReply
<1>10. Leased = Three /\ trieCount = Cardinality(Three)  BY <1>6, <1>7, <1>8
<1>11. Pool!Init  BY <1>9, <1>10, PoolCardinality, TakenAre DEF Pool!Init, PoolReply
<1> QED  BY <1>5, <1>6, <1>7, <1>8, <1>11 DEF DHCPInv

LEMMA ZeroIsLowest == \A f \in Hosts : f = ZeroHost \/ Pool!Below(ZeroHost, f)
<1> SUFFICES ASSUME NEW f \in Hosts, f # ZeroHost PROVE Pool!Below(ZeroHost, f)  OBVIOUS
<1>1. ZeroHost \in Hosts /\ \A i \in 1 .. HOST_BITS : ZeroHost[i] = 0  BY DEF ZeroHost, Hosts
<1>2. PICK i \in 1 .. HOST_BITS : ZeroHost[i] # f[i] /\ \A j \in 1 .. i - 1 : ZeroHost[j] = f[j]
  BY <1>1, FirstDiffer
<1>3. f[i] = 1  BY <1>1, <1>2, HostsAre
<1> QED  BY <1>1, <1>2, <1>3, BelowIs

\* What the pool grants is what the service goes for.
LEMMA ChosenIsGranted ==
    ASSUME DHCPInv, NEW req \in Hosts
    PROVE  /\ Pool!Granted(req) = Chosen(req) /\ Chosen(req) \subseteq Hosts
           /\ \A host \in Chosen(req) : ~Occupied(trieNodes, host)
           /\ Chosen(req) = {} => req \in Leased /\ Pool!FreeAbove(ZeroHost) = {}
<1>1. TrieOK(trieNodes) /\ ZeroHost \in Hosts  BY DEF DHCPInv, ZeroHost, Hosts
<1> DEFINE Next0(w) == TrieGetFreeNext(trieNodes, w)
           Above(w) == Pool!FreeAbove(w)
<1>2. \A w, f : f \in Above(w) <=> f \in Hosts /\ ~Occupied(trieNodes, f) /\ Pool!Below(w, f)
  BY DEF Pool!FreeAbove, Pool!Unleased, Leased
<1>3. ASSUME NEW w \in Hosts
      PROVE  /\ Pool!First(Above(w)) = Next0(w) /\ (Above(w) = {} <=> Next0(w) = {})
             /\ Next0(w) \subseteq Hosts /\ \A h \in Next0(w) : ~Occupied(trieNodes, h)
  <2> HIDE DEF Next0, Above
  <2>1. CASE Next0(w) = {} /\ \A f \in Hosts : Pool!Below(w, f) => Occupied(trieNodes, f)
    <3>1. Above(w) = {}  BY <1>2, <2>1
    <3> QED  BY <2>1, <3>1 DEF Pool!First
  <2>2. ASSUME NEW h \in Hosts,
               /\ Next0(w) = {h} /\ ~Occupied(trieNodes, h) /\ Pool!Below(w, h)
               /\ \A f \in Hosts : Pool!Below(w, f) /\ ~Occupied(trieNodes, f) => f = h \/ Pool!Below(h, f)
        PROVE  /\ Pool!First(Above(w)) = Next0(w) /\ (Above(w) = {} <=> Next0(w) = {})
               /\ Next0(w) \subseteq Hosts /\ \A g \in Next0(w) : ~Occupied(trieNodes, g)
    <3>1. h \in Above(w) /\ \A f \in Above(w) : f \in Hosts /\ (h = f \/ Pool!Below(h, f))
      BY <1>2, <2>2
    <3>2. \A f \in Above(w) : (\A g \in Above(w) : f = g \/ Pool!Below(f, g)) => f = h
      BY <3>1, BelowIs
    <3>3. Pool!First(Above(w)) = {h}  BY <3>1, <3>2 DEF Pool!First
    <3> QED  BY <2>2, <3>1, <3>3
  <2> QED  BY <1>1, <2>1, <2>2, NextFree DEF Next0
<1>4. req \in Leased <=> Occupied(trieNodes, req)  BY DEF Leased
<1>5. Chosen(req) = IF ~Occupied(trieNodes, req) THEN {req}
                    ELSE IF Next0(req) # {} THEN Next0(req) ELSE Next0(ZeroHost)
  BY DEF Chosen
<1>6. Pool!Granted(req) = IF req \notin Leased THEN {req}
                          ELSE IF Above(req) # {} THEN Pool!First(Above(req)) ELSE Pool!First(Above(ZeroHost))
  BY DEF Pool!Granted, Pool!Unleased
<1>7. Chosen(req) = {} => req \in Leased /\ Above(ZeroHost) = {}  BY <1>1, <1>3, <1>4, <1>5
<1> HIDE DEF Next0, Above
<1>8. Pool!Granted(req) = Chosen(req)  BY <1>1, <1>3, <1>4, <1>5, <1>6
<1>9. Chosen(req) \subseteq Hosts /\ \A host \in Chosen(req) : ~Occupied(trieNodes, host)
  BY <1>1, <1>3, <1>5
<1> QED  BY <1>7, <1>8, <1>9 DEF Above

LEMMA DHCPAllocSteps ==
    ASSUME DHCPInv, NEW req \in Hosts, DHCPAlloc(req) PROVE DHCPInv' /\ Pool!Next
<1>1. PICK host \in Chosen(req) :
        /\ ~Occupied(trieNodes, host) /\ trieNodes' = TrieInsert(trieNodes, host) /\ trieCount' = trieCount + 1
        /\ dhcpReply' = [status |-> "SUCCESS", ip |-> BuildIPFromHostPart(host)]
  BY DEF DHCPAlloc
<1>2. host \in Hosts /\ host \in Pool!Granted(req)  BY <1>1, ChosenIsGranted
<1>3. TrieOK(trieNodes') /\ Leased' = Leased \cup {host} /\ host \notin Leased
  <2>1. /\ TrieOK(TrieInsert(trieNodes, host))
        /\ \A h \in Hosts : Occupied(TrieInsert(trieNodes, host), h) <=> h = host \/ Occupied(trieNodes, h)
    BY <1>2, LeafInserted DEF DHCPInv
  <2> QED  BY <1>1, <1>2, <2>1 DEF Leased
<1>4. IsFiniteSet(Leased') /\ trieCount' = Cardinality(Leased')
  <2>1. IsFiniteSet(Leased) /\ trieCount = Cardinality(Leased)  BY DEF DHCPInv
  <2>2. IsFiniteSet(Leased \cup {host})
        /\ Cardinality(Leased \cup {host}) = IF host \in Leased THEN Cardinality(Leased) ELSE Cardinality(Leased) + 1
    BY <2>1, FS_AddElement
  <2> QED  BY <1>1, <1>3, <2>1, <2>2
<1>5. PoolReply' = [status |-> "SUCCESS", address |-> host]
  BY <1>1, <1>2, HostPartIs DEF PoolReply, BuildIPFromHostPart
<1>6. Pool!Alloc(req)  BY <1>1, <1>2, <1>3, <1>5 DEF Pool!Alloc, PoolReply
<1> QED  BY <1>3, <1>4, <1>6 DEF DHCPInv, Pool!Next

LEMMA DHCPAllocFullSteps ==
    ASSUME DHCPInv, NEW req \in Hosts, DHCPAllocFull(req) PROVE DHCPInv' /\ Pool!Next
<1>1. Chosen(req) = {} /\ (Pool!Unleased = {} \/ Pool!PassedOver(req))
  <2>1. \A host \in Chosen(req) : Occupied(trieNodes, host) /\ ~Occupied(trieNodes, host)
    BY ChosenIsGranted DEF DHCPAllocFull
  <2>2. Chosen(req) = {}  BY <2>1
  <2>3. req \in Leased /\ Pool!FreeAbove(ZeroHost) = {}  BY <2>2, ChosenIsGranted
  <2>4. ASSUME NEW f \in Pool!Unleased PROVE f = ZeroHost
    <3>1. f \in Hosts /\ ~Pool!Below(ZeroHost, f)  BY <2>3, <2>4 DEF Pool!FreeAbove, Pool!Unleased
    <3> QED  BY <3>1, ZeroIsLowest
  <2>5. req \notin Pool!Unleased  BY <2>3 DEF Pool!Unleased
  <2>6. Pool!Unleased = {} \/ Pool!Unleased = {ZeroHost}  BY <2>4
  <2> QED  BY <2>2, <2>5, <2>6 DEF Pool!PassedOver
<1>2. trieNodes' = trieNodes /\ trieCount' = trieCount /\ dhcpReply' = [status |-> "FULL"]
  BY <1>1 DEF DHCPAllocFull
<1>3. Leased' = Leased  BY <1>2 DEF Leased
<1>4. PoolReply' = [status |-> "FULL"]  BY <1>2 DEF PoolReply
<1>5. Pool!Alloc(req)  BY <1>1, <1>2, <1>3, <1>4 DEF Pool!Alloc, PoolReply
<1> QED  BY <1>2, <1>3, <1>5 DEF DHCPInv, Pool!Next

LEMMA DHCPAllocNoMemorySteps ==
    ASSUME DHCPInv, NEW req \in Hosts, DHCPAllocNoMemory(req) PROVE DHCPInv' /\ Pool!Next
<1>1. PICK host \in Chosen(req), k \in 0 .. HOST_BITS - 1 :
        /\ trieNodes' = Grown(trieNodes, host, k) /\ trieCount' = trieCount
        /\ dhcpReply' = [status |-> "NO_MEMORY"]
  BY DEF DHCPAllocNoMemory
<1>2. host \in Hosts /\ k \in 0 .. HOST_BITS  BY <1>1, ChosenIsGranted, BitsAssumed
<1>3. TrieOK(trieNodes') /\ \A path : Occupied(trieNodes', path) <=> Occupied(trieNodes, path)
  BY <1>1, <1>2, GrownIs DEF DHCPInv
<1>4. Leased' = Leased  BY <1>3 DEF Leased
<1>5. PoolReply' = [status |-> "NO_MEMORY"]  BY <1>1 DEF PoolReply
<1>6. Pool!Alloc(req)  BY <1>1, <1>4, <1>5 DEF Pool!Alloc, PoolReply
<1> QED  BY <1>1, <1>3, <1>4, <1>6 DEF DHCPInv, Pool!Next

LEMMA DHCPFreeSteps ==
    ASSUME DHCPInv, NEW host \in Hosts, DHCPFree(host) PROVE DHCPInv' /\ Pool!Next
<1>1. CASE Occupied(trieNodes, host)
  <2>1. /\ trieNodes' = TrieFree(trieNodes, host) /\ trieCount' = trieCount - 1
        /\ dhcpReply' = [status |-> "FREED"]
    BY <1>1 DEF DHCPFree
  <2>2. TrieOK(trieNodes') /\ Leased' = Leased \ {host} /\ host \in Leased
    <3>1. /\ TrieOK(TrieFree(trieNodes, host))
          /\ \A h \in Hosts : Occupied(TrieFree(trieNodes, host), h) <=> h # host /\ Occupied(trieNodes, h)
      BY <1>1, LeafFreed DEF DHCPInv
    <3> QED  BY <1>1, <2>1, <3>1 DEF Leased
  <2>3. IsFiniteSet(Leased') /\ trieCount' = Cardinality(Leased')
    <3>1. IsFiniteSet(Leased) /\ trieCount = Cardinality(Leased)  BY DEF DHCPInv
    <3>2. IsFiniteSet(Leased \ {host})
          /\ Cardinality(Leased \ {host}) = IF host \in Leased THEN Cardinality(Leased) - 1 ELSE Cardinality(Leased)
      BY <3>1, FS_RemoveElement
    <3> QED  BY <2>1, <2>2, <3>1, <3>2
  <2>4. PoolReply' = [status |-> "FREED"]  BY <2>1 DEF PoolReply
  <2>5. Pool!Free(host)
    <3>1. host \in Leased /\ Leased' = Leased \ {host} /\ trieCount' = Cardinality(Leased')  BY <2>2, <2>3
    <3>2. PoolReply' = [status |-> "FREED"] /\ host \in Leased /\ Leased' = Leased \ {host}
          /\ trieCount' = Cardinality(Leased \ {host})
      BY <2>4, <3>1
    <3> QED  BY <3>1, <3>2, PoolCardinality DEF Pool!Free, PoolReply
  <2> QED  BY <2>2, <2>3, <2>5 DEF DHCPInv, Pool!Next
<1>2. CASE ~Occupied(trieNodes, host)
  <2>1. trieNodes' = trieNodes /\ trieCount' = trieCount /\ dhcpReply' = [status |-> "INVALID_ADDRESSES"]
    BY <1>2 DEF DHCPFree
  <2>2. Leased' = Leased /\ host \notin Leased  BY <1>2, <2>1 DEF Leased
  <2>3. PoolReply' = [status |-> "INVALID_ADDRESSES"]  BY <2>1 DEF PoolReply
  <2>4. Pool!Free(host)  BY <2>1, <2>2, <2>3 DEF Pool!Free, PoolReply
  <2> QED  BY <2>1, <2>2, <2>4 DEF DHCPInv, Pool!Next
<1> QED  BY <1>1, <1>2

(***************************************************************************)
(* For any number of bits, and whatever allocations of memory fail: the    *)
(* service, by the flags of the inner nodes of its trie, implements the    *)
(* pool of addresses in which each is leased once, the next free one is    *)
(* granted and a request is refused only when none is free, or only the    *)
(* lowest, which the search passes over, when it was not asked for.        *)
(***************************************************************************)
THEOREM ServiceIsAPool == DHCPSpec => DHCPImplementsPool
<1>1. DHCPInv /\ [DHCPNext]_dhcpVars => DHCPInv' /\ [Pool!Next]_<<Leased, trieCount, PoolReply>>
  <2> SUFFICES ASSUME DHCPInv, [DHCPNext]_dhcpVars
               PROVE  DHCPInv' /\ [Pool!Next]_<<Leased, trieCount, PoolReply>>
    OBVIOUS
  <2>1. CASE UNCHANGED dhcpVars
    <3>1. trieNodes' = trieNodes /\ trieCount' = trieCount /\ dhcpReply' = dhcpReply  BY <2>1 DEF dhcpVars
    <3>2. Leased' = Leased /\ PoolReply' = PoolReply  BY <3>1 DEF Leased, PoolReply
    <3> QED  BY <3>1, <3>2 DEF DHCPInv
  <2>2. CASE DHCPNext
    <3>1. PICK req \in Hosts :
            DHCPAlloc(req) \/ DHCPAllocFull(req) \/ DHCPAllocNoMemory(req) \/ DHCPFree(req)
      BY <2>2, HostPartIs DEF DHCPNext
    <3> QED  BY <3>1, DHCPAllocSteps, DHCPAllocFullSteps, DHCPAllocNoMemorySteps, DHCPFreeSteps
  <2> QED  BY <2>1, <2>2
<1> QED  BY <1>1, DHCPBegins, PTL DEF DHCPSpec, DHCPImplementsPool, Pool!Spec, PoolReply

-----------------------------------------------------------------------------
(* HashTable: the list of a bucket.                                        *)

\* A key is in one node of the list, and belongs there.
OfBucket(list, b) ==
    /\ list \in Seq(HTElements)
    /\ \A i, j \in 1 .. Len(list) : /\ BucketOf(list[i].key) = b
                                    /\ list[i].key = list[j].key => i = j

Holds(list, f) == \E i \in 1 .. Len(list) : list[i] = f

LEMMA DListFindIs ==
    ASSUME NEW list \in Seq(HTElements), NEW key
    PROVE  \/ DListFind(list, key) = 0 /\ \A i \in 1 .. Len(list) : list[i].key # key
           \/ DListFind(list, key) \in 1 .. Len(list) /\ list[DListFind(list, key)].key = key
<1> DEFINE Hits == {i \in 1 .. Len(list) : list[i].key = key}
<1>1. DListFind(list, key) = IF Hits # {} THEN Min(Hits) ELSE 0  BY DEF DListFind, SelectInSeq
<1>2. Hits \in SUBSET Nat /\ \A i \in Hits : i \in 1 .. Len(list) /\ list[i].key = key  OBVIOUS
<1>3. Hits = {} => \A i \in 1 .. Len(list) : list[i].key # key  OBVIOUS
<1> HIDE DEF Hits
<1>4. CASE Hits # {}
  <2>1. \E x \in Hits : \A y \in Hits : x <= y  BY <1>2, <1>4, HasLowest
  <2>2. Min(Hits) \in Hits  BY <2>1 DEF Min
  <2> QED  BY <1>1, <1>2, <1>4, <2>2
<1> QED  BY <1>1, <1>3, <1>4

LEMMA RemoveAtIs ==
    ASSUME NEW S, NEW list \in Seq(S), NEW at \in 1 .. Len(list)
    PROVE  /\ RemoveAt(list, at) \in Seq(S) /\ Len(RemoveAt(list, at)) = Len(list) - 1
           /\ \A i \in 1 .. Len(list) - 1 : RemoveAt(list, at)[i] = IF i < at THEN list[i] ELSE list[i + 1]
<1> DEFINE before == SubSeq(list, 1, at - 1)
           after == SubSeq(list, at + 1, Len(list))
<1>1. before \in Seq(S) /\ Len(before) = at - 1 /\ \A i \in 1 .. at - 1 : before[i] = list[i]
  OBVIOUS
<1>2. after \in Seq(S) /\ Len(after) = Len(list) - at /\ \A i \in 1 .. Len(list) - at : after[i] = list[at + i]
  OBVIOUS
<1> HIDE DEF before, after
<1>3. RemoveAt(list, at) = before \o after  BY DEF RemoveAt, before, after
<1> DEFINE both == before \o after
           n == Len(list) - 1
<1>4. both = [i \in 1 .. Len(before) + Len(after) |->
                IF i <= Len(before) THEN before[i] ELSE after[i - Len(before)]]
  <2>1. before \in Seq(S) /\ after \in Seq(S)  BY <1>1, <1>2
  <2> QED  BY <2>1, ConcatIs
<1> HIDE DEF both
<1>5. both \in Seq(S) /\ Len(both) = n
  <2>1. Len(before) + Len(after) = n /\ n \in Nat  BY <1>1, <1>2
  <2> HIDE DEF n
  <2>2. \A i \in 1 .. n : (IF i <= Len(before) THEN before[i] ELSE after[i - Len(before)]) \in S
    BY <1>1, <1>2, <2>1
  <2> QED  BY <1>4, <2>1, <2>2
<1>6. ASSUME NEW i \in 1 .. Len(list) - 1 PROVE both[i] = IF i < at THEN list[i] ELSE list[i + 1]
  <2>1. both[i] = IF i <= at - 1 THEN before[i] ELSE after[i - (at - 1)]  BY <1>1, <1>2, <1>4 DEF both
  <2>2. CASE i < at  BY <1>1, <2>1, <2>2
  <2>3. CASE i >= at
    <3>1. i - (at - 1) \in 1 .. Len(list) - at /\ at + (i - (at - 1)) = i + 1  BY <2>3
    <3> QED  BY <1>2, <2>1, <2>3, <3>1
  <2> QED  BY <2>2, <2>3
<1> QED  BY <1>3, <1>5, <1>6 DEF both

\* What is left of a list.
LEMMA Removal ==
    ASSUME NEW b, NEW list, OfBucket(list, b), NEW at \in 1 .. Len(list)
    PROVE  /\ OfBucket(RemoveAt(list, at), b)
           /\ \A i \in 1 .. Len(RemoveAt(list, at)) : RemoveAt(list, at)[i].key # list[at].key
           /\ \A f : Holds(RemoveAt(list, at), f) <=> Holds(list, f) /\ f # list[at]
<1> DEFINE rest == RemoveAt(list, at)
           From(i) == IF i < at THEN i ELSE i + 1
<1>1. /\ rest \in Seq(HTElements) /\ Len(rest) = Len(list) - 1 /\ Len(list) \in Nat
      /\ \A i \in 1 .. Len(list) - 1 : rest[i] = list[From(i)]
  BY RemoveAtIs DEF OfBucket
<1> HIDE DEF rest
<1>2. ASSUME NEW i \in 1 .. Len(rest) PROVE From(i) \in 1 .. Len(list) /\ From(i) # at  BY <1>1
<1>3. \A i, j \in 1 .. Len(rest) : From(i) = From(j) => i = j  BY <1>1
<1>4. \A i \in 1 .. Len(rest) : rest[i] = list[From(i)]  BY <1>1
<1>5. ASSUME NEW k \in 1 .. Len(list), k # at PROVE \E i \in 1 .. Len(rest) : From(i) = k
  <2>1. CASE k < at  BY <1>1, <1>5, <2>1
  <2>2. CASE k > at
    <3>1. k - 1 \in 1 .. Len(rest) /\ ~(k - 1 < at) /\ k - 1 + 1 = k  BY <1>1, <2>2
    <3> QED  BY <3>1
  <2> QED  BY <1>5, <2>1, <2>2
<1> HIDE DEF From
<1>6. OfBucket(rest, b)
  <2>1. ASSUME NEW i \in 1 .. Len(rest) PROVE BucketOf(rest[i].key) = b  BY <1>2, <1>4 DEF OfBucket
  <2>2. ASSUME NEW i \in 1 .. Len(rest), NEW j \in 1 .. Len(rest), rest[i].key = rest[j].key PROVE i = j
    <3>1. From(i) = From(j)  BY <1>2, <1>4, <2>2 DEF OfBucket
    <3> QED  BY <1>3, <3>1
  <2> QED  BY <1>1, <2>1, <2>2 DEF OfBucket
<1>7. \A i \in 1 .. Len(rest) : rest[i].key # list[at].key  BY <1>2, <1>4 DEF OfBucket
<1>8. ASSUME NEW f PROVE Holds(rest, f) <=> Holds(list, f) /\ f # list[at]
  <2>1. Holds(rest, f) => Holds(list, f) /\ f # list[at]  BY <1>2, <1>4, <1>7 DEF Holds
  <2>2. Holds(list, f) /\ f # list[at] => Holds(rest, f)  BY <1>4, <1>5 DEF Holds
  <2> QED  BY <2>1, <2>2
<1> QED  BY <1>6, <1>7, <1>8 DEF rest

\* A new node at the front.
LEMMA PushedIs ==
    ASSUME NEW list \in Seq(HTElements), NEW e \in HTElements
    PROVE  /\ <<e>> \o list \in Seq(HTElements) /\ Len(<<e>> \o list) = Len(list) + 1
           /\ \A i \in 1 .. Len(list) + 1 : (<<e>> \o list)[i] = IF i = 1 THEN e ELSE list[i - 1]
<1>1. <<e>> \in Seq(HTElements) /\ Len(<<e>>) = 1 /\ <<e>>[1] = e  OBVIOUS
<1> QED  BY <1>1

LEMMA Addition ==
    ASSUME NEW b, NEW list, OfBucket(list, b), NEW e \in HTElements,
           BucketOf(e.key) = b, \A i \in 1 .. Len(list) : list[i].key # e.key
    PROVE  /\ OfBucket(<<e>> \o list, b)
           /\ \A f : Holds(<<e>> \o list, f) <=> Holds(list, f) \/ f = e
<1> DEFINE long == <<e>> \o list
<1>1. /\ long \in Seq(HTElements) /\ Len(long) = Len(list) + 1 /\ Len(list) \in Nat
      /\ \A i \in 1 .. Len(long) : long[i] = IF i = 1 THEN e ELSE list[i - 1]
  BY PushedIs DEF OfBucket
<1> HIDE DEF long
<1>2. long[1] = e /\ 1 \in 1 .. Len(long)  BY <1>1
<1>3. \A i \in 1 .. Len(long) : i # 1 => i - 1 \in 1 .. Len(list) /\ long[i] = list[i - 1]  BY <1>1
<1>4. OfBucket(long, b)
  <2>1. ASSUME NEW i \in 1 .. Len(long) PROVE BucketOf(long[i].key) = b  BY <1>2, <1>3 DEF OfBucket
  <2>2. ASSUME NEW i \in 1 .. Len(long), NEW j \in 1 .. Len(long), long[i].key = long[j].key PROVE i = j
    <3>1. CASE i = 1 \/ j = 1  BY <1>2, <1>3, <2>2, <3>1
    <3>2. CASE i # 1 /\ j # 1
      <4>1. i - 1 \in 1 .. Len(list) /\ j - 1 \in 1 .. Len(list) /\ list[i - 1].key = list[j - 1].key
        BY <1>3, <2>2, <3>2
      <4>2. i - 1 = j - 1  BY <4>1 DEF OfBucket
      <4> QED  BY <4>2
    <3> QED  BY <3>1, <3>2
  <2> QED  BY <1>1, <2>1, <2>2 DEF OfBucket
<1>5. ASSUME NEW f PROVE Holds(long, f) <=> Holds(list, f) \/ f = e
  <2>1. Holds(long, f) => Holds(list, f) \/ f = e  BY <1>2, <1>3 DEF Holds
  <2>2. ASSUME NEW k \in 1 .. Len(list), list[k] = f PROVE Holds(long, f)
    <3>1. k + 1 \in 1 .. Len(long) /\ k + 1 # 1 /\ k + 1 - 1 = k  BY <1>1
    <3>2. long[k + 1] = list[k]  BY <1>3, <3>1
    <3> QED  BY <2>2, <3>1, <3>2 DEF Holds
  <2>3. f = e => Holds(long, f)  BY <1>2 DEF Holds
  <2> QED  BY <2>1, <2>2, <2>3 DEF Holds
<1> QED  BY <1>4, <1>5 DEF long

\* After a search: with memory the element is in front, without it is gone.
LEMMA MovedToFrontIs ==
    ASSUME NEW b, NEW list, OfBucket(list, b), NEW key, NEW memory \in BOOLEAN,
           DListFind(list, key) # 0
    PROVE  LET at == DListFind(list, key)
               moved == MovedToFront(list, key, memory)
           IN  /\ at \in 1 .. Len(list) /\ list[at].key = key /\ list[at] \in HTElements
               /\ moved = IF memory THEN <<list[at]>> \o RemoveAt(list, at) ELSE RemoveAt(list, at)
<1> DEFINE at == DListFind(list, key)
           pushed == <<list[at]>> \o list
<1>1. list \in Seq(HTElements) /\ Len(list) \in Nat  BY DEF OfBucket
<1>2. at \in 1 .. Len(list) /\ list[at].key = key  BY <1>1, DListFindIs
<1>3. list # <<>> /\ list[at] \in HTElements  BY <1>1, <1>2
<1>4. MovedToFront(list, key, memory) = IF memory THEN RemoveAt(pushed, at + Len(pushed) - Len(list))
                                        ELSE RemoveAt(list, at + Len(list) - Len(list))
  BY <1>3 DEF MovedToFront, DListPushFront, PushFrontSucceeds
<1> HIDE DEF at
<1>5. at + Len(list) - Len(list) = at  BY <1>1, <1>2
<1>6. RemoveAt(pushed, at + Len(pushed) - Len(list)) = <<list[at]>> \o RemoveAt(list, at)
  <2> DEFINE rest == RemoveAt(list, at)
             left == RemoveAt(pushed, at + 1)
             right == <<list[at]>> \o rest
  <2>1. /\ rest \in Seq(HTElements) /\ Len(rest) = Len(list) - 1
        /\ \A i \in 1 .. Len(list) - 1 : rest[i] = IF i < at THEN list[i] ELSE list[i + 1]
    BY <1>1, <1>2, RemoveAtIs
  <2> HIDE DEF rest
  <2>2. /\ right \in Seq(HTElements) /\ Len(right) = Len(rest) + 1
        /\ \A i \in 1 .. Len(rest) + 1 : right[i] = IF i = 1 THEN list[at] ELSE rest[i - 1]
    BY <1>3, <2>1, PushedIs
  <2>3. /\ pushed \in Seq(HTElements) /\ Len(pushed) = Len(list) + 1
        /\ \A i \in 1 .. Len(list) + 1 : pushed[i] = IF i = 1 THEN list[at] ELSE list[i - 1]
    BY <1>1, <1>3, PushedIs
  <2> HIDE DEF right, pushed
  <2>4. at + 1 \in 1 .. Len(pushed) /\ at + Len(pushed) - Len(list) = at + 1  BY <1>1, <1>2, <2>3
  <2>5. /\ left \in Seq(HTElements) /\ Len(left) = Len(pushed) - 1
        /\ \A i \in 1 .. Len(pushed) - 1 : left[i] = IF i < at + 1 THEN pushed[i] ELSE pushed[i + 1]
    BY <2>3, <2>4, RemoveAtIs
  <2> HIDE DEF left
  <2>6. Len(left) = Len(right) /\ Len(left) = Len(list)  BY <1>1, <2>1, <2>2, <2>3, <2>5
  <2>7. ASSUME NEW i \in 1 .. Len(list) PROVE left[i] = right[i]
    <3>1. CASE i = 1  BY <1>1, <1>2, <2>1, <2>2, <2>3, <2>5, <3>1
    <3>2. CASE i # 1 /\ i < at + 1
      <4>1. i - 1 \in 1 .. Len(list) - 1 /\ i - 1 < at  BY <1>1, <1>2, <3>2
      <4>2. left[i] = list[i - 1]  BY <1>1, <2>3, <2>5, <3>2
      <4>3. right[i] = list[i - 1]  BY <1>1, <2>1, <2>2, <3>2, <4>1
      <4> QED  BY <4>2, <4>3
    <3>3. CASE i >= at + 1
      <4>1. i - 1 \in 1 .. Len(list) - 1 /\ ~(i - 1 < at) /\ i # 1 /\ i - 1 + 1 = i /\ i + 1 - 1 = i
            /\ i + 1 \in 1 .. Len(list) + 1 /\ i + 1 # 1 /\ ~(i < at + 1)
        BY <1>1, <1>2, <3>3
      <4>2. left[i] = list[i]
        <5>1. left[i] = pushed[i + 1]  BY <1>1, <2>3, <2>5, <4>1
        <5> QED  BY <2>3, <4>1, <5>1
      <4>3. right[i] = list[i]
        <5>1. right[i] = rest[i - 1]  BY <1>1, <2>1, <2>2, <4>1
        <5> QED  BY <2>1, <4>1, <5>1
      <4> QED  BY <4>2, <4>3
    <3> QED  BY <1>2, <3>1, <3>2, <3>3
  <2>8. left = right  BY <2>2, <2>5, <2>6, <2>7
  <2> QED  BY <2>4, <2>8 DEF left, right, rest
<1> QED  BY <1>2, <1>3, <1>4, <1>5, <1>6 DEF at

\* The list after any search that finds: what is left, or what is left behind what was found.
LEMMA SearchKeeps ==
    ASSUME NEW b, NEW list, OfBucket(list, b), NEW key, NEW memory \in BOOLEAN,
           DListFind(list, key) # 0
    PROVE  LET moved == MovedToFront(list, key, memory)
           IN  /\ OfBucket(moved, b)
               /\ memory => /\ \A f : Holds(moved, f) <=> Holds(list, f)
                            /\ moved # <<>> /\ moved[1].key = key
               /\ ~memory => \A i \in 1 .. Len(moved) : moved[i].key # key
<1> DEFINE at == DListFind(list, key)
           rest == RemoveAt(list, at)
           moved == MovedToFront(list, key, memory)
<1>1. /\ at \in 1 .. Len(list) /\ list[at].key = key /\ list[at] \in HTElements
      /\ moved = IF memory THEN <<list[at]>> \o rest ELSE rest
  BY MovedToFrontIs
<1> HIDE DEF at, moved
<1>2. /\ OfBucket(rest, b) /\ \A i \in 1 .. Len(rest) : rest[i].key # key
      /\ \A f : Holds(rest, f) <=> Holds(list, f) /\ f # list[at]
  BY <1>1, Removal
<1> HIDE DEF rest
<1>3. BucketOf(list[at].key) = b /\ Holds(list, list[at])  BY <1>1 DEF OfBucket, Holds
<1>4. CASE memory
  <2>1. /\ OfBucket(<<list[at]>> \o rest, b)
        /\ \A f : Holds(<<list[at]>> \o rest, f) <=> Holds(rest, f) \/ f = list[at]
    BY <1>1, <1>2, <1>3, Addition
  <2>2. rest \in Seq(HTElements) /\ Len(rest) \in Nat  BY <1>2 DEF OfBucket
  <2>3. moved # <<>> /\ moved[1] = list[at]
    <3>1. moved = <<list[at]>> \o rest  BY <1>1, <1>4
    <3>2. Len(moved) = Len(rest) + 1 /\ \A i \in 1 .. Len(rest) + 1 : moved[i] = IF i = 1 THEN list[at] ELSE rest[i - 1]
      BY <1>1, <2>2, <3>1, PushedIs
    <3>3. moved # <<>>  BY <2>2, <3>2
    <3> QED  BY <2>2, <3>2, <3>3
  <2> QED  BY <1>1, <1>2, <1>3, <1>4, <2>1, <2>3 DEF moved
<1>5. CASE ~memory  BY <1>1, <1>2, <1>5 DEF moved
<1> QED  BY <1>4, <1>5

\* The first node is overwritten by an element of its key, or of a key that is not there.
LEMMA Overwritten ==
    ASSUME NEW b, NEW list, OfBucket(list, b), list # <<>>, NEW e \in HTElements, BucketOf(e.key) = b,
           list[1].key = e.key \/ \A i \in 1 .. Len(list) : list[i].key # e.key
    PROVE  /\ OfBucket([list EXCEPT ![1] = e], b)
           /\ \A f : Holds([list EXCEPT ![1] = e], f) <=> f = e \/ (Holds(list, f) /\ f # list[1])
<1> DEFINE new == [list EXCEPT ![1] = e]
<1>1. list \in Seq(HTElements) /\ Len(list) \in Nat /\ 1 \in 1 .. Len(list)  BY DEF OfBucket
<1>2. /\ new \in Seq(HTElements) /\ Len(new) = Len(list)
      /\ new[1] = e /\ \A i \in 1 .. Len(list) : i # 1 => new[i] = list[i]
  BY <1>1
<1> HIDE DEF new
<1>3. \A i \in 1 .. Len(list) : i # 1 => list[i].key # e.key /\ list[i] # list[1]
  BY <1>1 DEF OfBucket
<1>4. OfBucket(new, b)
  <2>1. ASSUME NEW i \in 1 .. Len(list) PROVE BucketOf(new[i].key) = b  BY <1>2 DEF OfBucket
  <2>2. ASSUME NEW i \in 1 .. Len(list), NEW j \in 1 .. Len(list), new[i].key = new[j].key PROVE i = j
    <3>1. CASE i = 1 \/ j = 1  BY <1>2, <1>3, <2>2, <3>1
    <3>2. CASE i # 1 /\ j # 1  BY <1>2, <2>2, <3>2 DEF OfBucket
    <3> QED  BY <3>1, <3>2
  <2> QED  BY <1>2, <2>1, <2>2 DEF OfBucket
<1>5. ASSUME NEW f PROVE Holds(new, f) <=> f = e \/ (Holds(list, f) /\ f # list[1])
  <2>1. ASSUME NEW i \in 1 .. Len(list), new[i] = f PROVE f = e \/ (Holds(list, f) /\ f # list[1])
    <3>1. i = 1 => f = e  BY <1>2, <2>1
    <3>2. i # 1 => f = list[i] /\ f # list[1]  BY <1>2, <1>3, <2>1
    <3> QED  BY <3>1, <3>2 DEF Holds
  <2>2. f = e => Holds(new, f)  BY <1>1, <1>2 DEF Holds
  <2>3. Holds(list, f) /\ f # list[1] => Holds(new, f)  BY <1>2 DEF Holds
  <2> QED  BY <1>2, <2>1, <2>2, <2>3 DEF Holds
<1> QED  BY <1>4, <1>5 DEF new

(* The table: every step writes the list of one bucket.                    *)

HTInv ==
    /\ htBuckets = [b \in 0 .. NUM_BUCKETS - 1 |-> htBuckets[b]] /\ htMemory \in BOOLEAN
    /\ \A b \in 0 .. NUM_BUCKETS - 1 : OfBucket(htBuckets[b], b)

LEMMA BucketExists ==
    ASSUME NEW e \in HTElements PROVE e.key \in HT_KEYS /\ BucketOf(e.key) \in 0 .. NUM_BUCKETS - 1
<1>1. e.key \in HT_KEYS /\ e.key \in Nat /\ NUM_BUCKETS \in Nat \ {0}  BY HashTableAssumption DEF HTElements
<1>2. e.key % NUM_BUCKETS \in 0 .. NUM_BUCKETS - 1  BY <1>1
<1> QED  BY <1>1, <1>2 DEF BucketOf

LEMMA KeyBucketExists ==
    ASSUME NEW key \in HT_KEYS PROVE BucketOf(key) \in 0 .. NUM_BUCKETS - 1
<1>1. key \in Nat /\ NUM_BUCKETS \in Nat \ {0}  BY HashTableAssumption
<1>2. key % NUM_BUCKETS \in 0 .. NUM_BUCKETS - 1  BY <1>1
<1> QED  BY <1>2 DEF BucketOf

LEMMA ToSetIs ==
    ASSUME NEW b, NEW list, OfBucket(list, b) PROVE \A f : f \in ToSet(list) <=> Holds(list, f)
<1>1. DOMAIN list = 1 .. Len(list)  BY DEF OfBucket
<1> QED  BY <1>1 DEF ToSet, Holds

LEMMA TableHolds ==
    ASSUME HTInv
    PROVE  \A f : f \in HTHeld <=> \E b \in 0 .. NUM_BUCKETS - 1 : Holds(htBuckets[b], f)
BY ToSetIs DEF HTInv, HTHeld

LEMMA BucketWritten ==
    ASSUME HTInv, NEW b \in 0 .. NUM_BUCKETS - 1, NEW list, OfBucket(list, b),
           htBuckets' = [htBuckets EXCEPT ![b] = list], htMemory' \in BOOLEAN
    PROVE  /\ HTInv'
           /\ \A f : f \in HTHeld' <=> \/ Holds(list, f)
                                       \/ \E c \in 0 .. NUM_BUCKETS - 1 : c # b /\ Holds(htBuckets[c], f)
<1>1. htBuckets'[b] = list /\ \A c \in 0 .. NUM_BUCKETS - 1 : c # b => htBuckets'[c] = htBuckets[c]
  BY DEF HTInv
<1>2. htBuckets' = [c \in 0 .. NUM_BUCKETS - 1 |-> htBuckets'[c]]  BY DEF HTInv
<1>3. HTInv'
  <2>1. \A c \in 0 .. NUM_BUCKETS - 1 : OfBucket(htBuckets'[c], c)  BY <1>1 DEF HTInv
  <2> QED  BY <1>2, <2>1 DEF HTInv
<1>4. \A f : f \in HTHeld' <=> \E c \in 0 .. NUM_BUCKETS - 1 : Holds(htBuckets'[c], f)
  <2>1. \A c \in 0 .. NUM_BUCKETS - 1 : \A f : f \in ToSet(htBuckets'[c]) <=> Holds(htBuckets'[c], f)
    BY <1>3, ToSetIs DEF HTInv
  <2> QED  BY <2>1 DEF HTHeld
<1> QED  BY <1>1, <1>3, <1>4

\* The elements of a key are in the key's own bucket.
LEMMA KeptApart ==
    ASSUME HTInv, NEW b \in 0 .. NUM_BUCKETS - 1, NEW f, Holds(htBuckets[b], f)
    PROVE  BucketOf(f.key) = b
<1>1. PICK i \in 1 .. Len(htBuckets[b]) : htBuckets[b][i] = f  BY DEF Holds
<1> QED  BY <1>1 DEF HTInv, OfBucket

\* Only in the bucket that was written can anything have changed.
LEMMA TableHoldsAfter ==
    ASSUME HTInv, NEW b \in 0 .. NUM_BUCKETS - 1, NEW list, OfBucket(list, b),
           htBuckets' = [htBuckets EXCEPT ![b] = list], htMemory' \in BOOLEAN
    PROVE  \A f : /\ BucketOf(f.key) = b => (f \in HTHeld' <=> Holds(list, f)) /\ (f \in HTHeld <=> Holds(htBuckets[b], f))
                  /\ BucketOf(f.key) # b => (f \in HTHeld' <=> f \in HTHeld)
<1> SUFFICES ASSUME NEW f
             PROVE  /\ BucketOf(f.key) = b => (f \in HTHeld' <=> Holds(list, f)) /\ (f \in HTHeld <=> Holds(htBuckets[b], f))
                    /\ BucketOf(f.key) # b => (f \in HTHeld' <=> f \in HTHeld)
  OBVIOUS
<1>1. f \in HTHeld' <=> \/ Holds(list, f)
                        \/ \E c \in 0 .. NUM_BUCKETS - 1 : c # b /\ Holds(htBuckets[c], f)
  BY BucketWritten
<1>2. f \in HTHeld <=> \E c \in 0 .. NUM_BUCKETS - 1 : Holds(htBuckets[c], f)  BY TableHolds
<1>3. \A c \in 0 .. NUM_BUCKETS - 1 : Holds(htBuckets[c], f) => BucketOf(f.key) = c  BY KeptApart
<1>4. Holds(list, f) => BucketOf(f.key) = b
  <2>1. \A i \in 1 .. Len(list) : BucketOf(list[i].key) = b  BY DEF OfBucket
  <2> QED  BY <2>1 DEF Holds
<1> QED  BY <1>1, <1>2, <1>3, <1>4

LEMMA FindKeeps ==
    ASSUME HTInv, NEW key \in HT_KEYS, NEW memory \in BOOLEAN, HashTableFind(key, memory)
    PROVE  HTInv' /\ (memory => HTHeld' = HTHeld)
<1> DEFINE b == BucketOf(key)
           moved == MovedToFront(htBuckets[b], key, memory)
<1>1. b \in 0 .. NUM_BUCKETS - 1  BY KeyBucketExists
<1> HIDE DEF b
<1>2. OfBucket(htBuckets[b], b)  BY <1>1 DEF HTInv
<1>3. CASE DListFind(htBuckets[b], key) = 0
  <2>1. htBuckets' = htBuckets /\ htMemory' = htMemory  BY <1>3 DEF HashTableFind, htVars, b
  <2> QED  BY <2>1 DEF HTInv, HTHeld
<1>4. CASE DListFind(htBuckets[b], key) # 0
  <2>1. htBuckets' = [htBuckets EXCEPT ![b] = moved] /\ htMemory' \in BOOLEAN
    BY <1>4 DEF HashTableFind, b
  <2>2. OfBucket(moved, b) /\ (memory => \A f : Holds(moved, f) <=> Holds(htBuckets[b], f))
    BY <1>2, <1>4, SearchKeeps
  <2> HIDE DEF moved
  <2>3. HTInv'  BY <1>1, <2>1, <2>2, BucketWritten
  <2>4. ASSUME memory PROVE HTHeld' = HTHeld
    <3>1. \A f : f \in HTHeld' <=> f \in HTHeld  BY <1>1, <2>1, <2>2, <2>4, TableHoldsAfter
    <3> QED  BY <3>1 DEF HTHeld
  <2> QED  BY <2>3, <2>4
<1> QED  BY <1>3, <1>4

LEMMA InsertKeeps ==
    ASSUME HTInv, NEW e \in HTElements, NEW memory \in BOOLEAN, HashTableInsert(e, memory)
    PROVE  HTInv' /\ (memory => HTHeld' = {f \in HTHeld : f.key # e.key} \cup {e})
<1> DEFINE b == BucketOf(e.key)
           list == htBuckets[b]
           moved == MovedToFront(list, e.key, memory)
<1>1. b \in 0 .. NUM_BUCKETS - 1  BY BucketExists
<1>2. OfBucket(list, b)  BY <1>1 DEF HTInv
\* Each of the two ways writes a list that holds the others and, if memory was got, e.
<1>3. \E new : /\ htBuckets' = [htBuckets EXCEPT ![b] = new] /\ htMemory' \in BOOLEAN
               /\ OfBucket(new, b)
               /\ memory => \A f : Holds(new, f) <=> f = e \/ (Holds(list, f) /\ f.key # e.key)
  <2>1. CASE HashTableReplace(e, memory)
    <3> DEFINE new == IF moved = <<>> THEN moved ELSE [moved EXCEPT ![1] = e]
    <3>1. /\ DListFind(list, e.key) # 0 /\ htMemory' \in BOOLEAN
          /\ htBuckets' = [htBuckets EXCEPT ![b] = new]
      BY <2>1 DEF HashTableReplace
    <3>2. /\ OfBucket(moved, b)
          /\ memory => /\ \A f : Holds(moved, f) <=> Holds(list, f)
                       /\ moved # <<>> /\ moved[1].key = e.key
          /\ ~memory => \A i \in 1 .. Len(moved) : moved[i].key # e.key
      BY <1>2, <3>1, SearchKeeps
    <3> DEFINE written == [moved EXCEPT ![1] = e]
    <3> HIDE DEF moved, list
    <3>3. ASSUME moved # <<>>
          PROVE  /\ OfBucket(written, b)
                 /\ \A f : Holds(written, f) <=> f = e \/ (Holds(moved, f) /\ f # moved[1])
      BY <3>2, <3>3, Overwritten
    <3> HIDE DEF written
    <3>4. new = IF moved = <<>> THEN moved ELSE written  BY DEF written
    <3>5. OfBucket(new, b)  BY <3>2, <3>3, <3>4
    <3>6. ASSUME memory, NEW f PROVE Holds(new, f) <=> f = e \/ (Holds(list, f) /\ f.key # e.key)
      <4>1. Holds(new, f) <=> f = e \/ (Holds(moved, f) /\ f # moved[1])  BY <3>2, <3>3, <3>4, <3>6
      <4>2. Holds(moved, f) => (f # moved[1] <=> f.key # e.key)
        <5>1. moved[1].key = e.key /\ 1 \in 1 .. Len(moved)  BY <3>2, <3>6 DEF OfBucket
        <5> QED  BY <3>2, <5>1 DEF OfBucket, Holds
      <4> QED  BY <3>2, <3>6, <4>1, <4>2
    <3> QED  BY <3>1, <3>5, <3>6
  <2>2. CASE HashTablePush(e, memory)
    <3>1. /\ DListFind(list, e.key) = 0 /\ htMemory' \in BOOLEAN
          /\ htBuckets' = [htBuckets EXCEPT ![b] = IF memory THEN <<e>> \o list ELSE list]
      BY <2>2 DEF HashTablePush, DListPushFront
    <3>2. \A i \in 1 .. Len(list) : list[i].key # e.key  BY <1>2, <3>1, DListFindIs DEF OfBucket
    <3> HIDE DEF list
    <3>3. /\ OfBucket(<<e>> \o list, b)
          /\ \A f : Holds(<<e>> \o list, f) <=> Holds(list, f) \/ f = e
      BY <1>2, <3>2, Addition
    <3>4. \A f : Holds(list, f) => f.key # e.key  BY <3>2 DEF Holds
    <3>5. CASE memory
      <4>1. htBuckets' = [htBuckets EXCEPT ![b] = <<e>> \o list]  BY <3>1, <3>5
      <4>2. \A f : Holds(<<e>> \o list, f) <=> f = e \/ (Holds(list, f) /\ f.key # e.key)  BY <3>3, <3>4
      <4> DEFINE long == <<e>> \o list
      <4>3. OfBucket(long, b)  BY <3>3
      <4> HIDE DEF long
      <4> QED  BY <3>1, <4>1, <4>2, <4>3 DEF long
    <3>6. CASE ~memory
      <4>1. htBuckets' = [htBuckets EXCEPT ![b] = list]  BY <3>1, <3>6
      <4> QED  BY <1>2, <3>1, <3>6, <4>1
    <3> QED  BY <3>5, <3>6
  <2> QED  BY <2>1, <2>2 DEF HashTableInsert
<1>4. PICK new : /\ htBuckets' = [htBuckets EXCEPT ![b] = new] /\ htMemory' \in BOOLEAN
                 /\ OfBucket(new, b)
                 /\ memory => \A f : Holds(new, f) <=> f = e \/ (Holds(list, f) /\ f.key # e.key)
  BY <1>3
<1>5. HTInv'  BY <1>1, <1>4, BucketWritten
<1>6. ASSUME memory PROVE HTHeld' = {f \in HTHeld : f.key # e.key} \cup {e}
  <2> DEFINE Wanted == {f \in HTHeld : f.key # e.key} \cup {e}
  <2>1. ASSUME NEW f PROVE f \in HTHeld' <=> f \in Wanted
    <3>1. /\ BucketOf(f.key) = b => (f \in HTHeld' <=> Holds(new, f)) /\ (f \in HTHeld <=> Holds(list, f))
          /\ BucketOf(f.key) # b => (f \in HTHeld' <=> f \in HTHeld)
      BY <1>1, <1>4, TableHoldsAfter
    <3>2. BucketOf(f.key) # b => f.key # e.key /\ f # e  OBVIOUS
    <3> QED  BY <1>4, <1>6, <3>1, <3>2
  <2> QED  BY <2>1 DEF HTHeld
<1> QED  BY <1>5, <1>6

LEMMA RemoveKeeps ==
    ASSUME HTInv, NEW key \in HT_KEYS, HashTableRemove(key) PROVE HTInv'
<1> DEFINE b == BucketOf(key)
           rest == RemoveAt(htBuckets[b], DListFind(htBuckets[b], key))
<1>1. b \in 0 .. NUM_BUCKETS - 1  BY KeyBucketExists
<1>2. /\ DListFind(htBuckets[b], key) # 0 /\ htMemory' = htMemory
      /\ htBuckets' = [htBuckets EXCEPT ![b] = rest]
  BY DEF HashTableRemove
<1> HIDE DEF b
<1>3. OfBucket(htBuckets[b], b)  BY <1>1 DEF HTInv
<1>4. OfBucket(rest, b)
  <2>1. htBuckets[b] \in Seq(HTElements)  BY <1>3 DEF OfBucket
  <2>2. DListFind(htBuckets[b], key) \in 1 .. Len(htBuckets[b])  BY <1>2, <2>1, DListFindIs
  <2> QED  BY <1>3, <2>2, Removal
<1> HIDE DEF rest
<1> QED  BY <1>1, <1>2, <1>4, BucketWritten DEF HTInv

LEMMA HashTableInvariance == HashTableSpec => []HTInv
<1>1. HashTableInit => HTInv
  <2> SUFFICES ASSUME HashTableInit PROVE HTInv  OBVIOUS
  <2>1. \A b \in 0 .. NUM_BUCKETS - 1 : htBuckets[b] = <<>>  BY DEF HashTableInit
  <2>2. \A b : OfBucket(<<>>, b)  BY DEF OfBucket
  <2> QED  BY <2>1, <2>2 DEF HashTableInit, HTInv
<1>2. HTInv /\ [HashTableNext]_htVars => HTInv'
  <2> SUFFICES ASSUME HTInv, [HashTableNext]_htVars PROVE HTInv'  OBVIOUS
  <2>1. CASE UNCHANGED htVars
    <3>1. htBuckets' = htBuckets /\ htMemory' = htMemory  BY <2>1 DEF htVars
    <3> QED  BY <3>1 DEF HTInv
  <2>2. ASSUME NEW key \in HT_KEYS, HashTableRemove(key) PROVE HTInv'  BY <2>2, RemoveKeeps
  <2>3. ASSUME NEW key \in HT_KEYS, NEW m \in BOOLEAN, HashTableFind(key, m) PROVE HTInv'  BY <2>3, FindKeeps
  <2>4. ASSUME NEW e \in HTElements, NEW m \in BOOLEAN, HashTableInsert(e, m) PROVE HTInv'  BY <2>4, InsertKeeps
  <2> QED  BY <2>1, <2>2, <2>3, <2>4 DEF HashTableNext
<1> QED  BY <1>1, <1>2, PTL DEF HashTableSpec

(***************************************************************************)
(* For any keys and any number of buckets, and whatever allocations fail:  *)
(* a key is in one node of the hash table, in the list of its own bucket.  *)
(***************************************************************************)
THEOREM KeysStaySingle == HashTableSpec => [](HashTableTypeOK /\ HTOneNodePerKey)
<1>1. HTInv => HashTableTypeOK /\ HTOneNodePerKey
  <2> SUFFICES ASSUME HTInv PROVE HashTableTypeOK /\ HTOneNodePerKey  OBVIOUS
  <2>1. DOMAIN htBuckets = 0 .. NUM_BUCKETS - 1 /\ htMemory \in BOOLEAN  BY DEF HTInv
  <2>2. ASSUME NEW b \in 0 .. NUM_BUCKETS - 1 PROVE OfBucket(htBuckets[b], b)  BY DEF HTInv
  <2>3. ASSUME NEW b \in 0 .. NUM_BUCKETS - 1
        PROVE  DOMAIN htBuckets[b] = 1 .. Len(htBuckets[b]) /\ ToSet(htBuckets[b]) \subseteq HTElements
    <3>1. htBuckets[b] \in Seq(HTElements)  BY <2>2 DEF OfBucket
    <3> QED  BY <3>1 DEF ToSet
  <2>4. HashTableTypeOK  BY <2>1, <2>3 DEF HashTableTypeOK
  <2>5. HTOneNodePerKey  BY <2>2, <2>3 DEF HTOneNodePerKey, OfBucket
  <2> QED  BY <2>4, <2>5
<1> QED  BY <1>1, HashTableInvariance, PTL

(***************************************************************************)
(* For the same: a search of the table that gets its memory loses nothing, *)
(* and an insertion replaces the element of its key and no other.          *)
(***************************************************************************)
THEOREM OthersAreKept == HashTableSpec => [][HTKeepsOthers]_htVars
<1>1. HTInv => HTKeepsOthers
  <2> SUFFICES ASSUME HTInv, NEW e \in HTElements
               PROVE  /\ HashTableFind(e.key, TRUE) => HTHeld' = HTHeld
                      /\ HashTableInsert(e, TRUE) => HTHeld' = {f \in HTHeld : f.key # e.key} \cup {e}
    BY DEF HTKeepsOthers
  <2> QED  BY BucketExists, FindKeeps, InsertKeeps
<1> QED  BY <1>1, HashTableInvariance, PTL
=============================================================================
