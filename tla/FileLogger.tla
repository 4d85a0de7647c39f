------------------------------ MODULE FileLogger ------------------------------
(***************************************************************************)
(* c/files/logger.c: a line from standard input is a command or is written *)
(* at the end or, marked by "<", at the beginning of a text file.  The     *)
(* latter goes through temp_text.txt in steps, and the process may be      *)
(* killed between them and started again.  Of a text only the number of    *)
(* the line it was entered with matters; a file is the sequence of its     *)
(* lines.  What is written stays in the stream's buffer until it is        *)
(* flushed: files are shorter than one.                                    *)
(***************************************************************************)
EXTENDS Integers, SequencesExt

CONSTANT MAX_LINES   \* bound on the lines read, in all runs of the program

Absent == <<-1>>
Lines(f) == IF f = Absent THEN <<>> ELSE f
Text(line) == IF line = 0 THEN <<>> ELSE <<line>>   \* no line, before the first

VARIABLES
    file, temp_text,      \* on disk: the log, and temp_text.txt
    temp_file,       \* what the stream of temp_text.txt has not flushed
    original_file,   \* what the stream of the log has not flushed
    input,           \* [command, line]; fgets leaves it as it is at the end of input
    step,            \* of the program
    read,            \* lines read
    logged,          \* history: lines that reached the log and were not removed since
    order,           \* history: the log as the commands alone would have made it
    disturbed        \* history: a prepend was not carried out; "gap" for the worst moment

flVars == <<file, temp_text, temp_file, original_file, input, step, read, logged, order, disturbed>>
diskVars == <<file, temp_text, temp_file, original_file>>
pastVars == <<logged, order, disturbed>>

FileLoggerInit ==
    /\ file = Absent /\ temp_text = Absent /\ temp_file = <<>> /\ original_file = <<>>
    /\ input = [command |-> "append", line |-> 0] /\ step = "reads" /\ read = 0
    /\ logged = {} /\ order = <<>> /\ disturbed = "no"

Commands == {"count", "exit", "remove", "prepend", "append"}

\* fgets and the first comparison that holds, in the order of the table: IsAppend is last.
ActiveCmd ==
    /\ step = "reads" /\ read < MAX_LINES
    /\ read' = read + 1
    /\ \/ \E c \in Commands : input' = [command |-> c, line |-> read + 1]
       \/ UNCHANGED input
    /\ step' = input'.command
    /\ UNCHANGED <<diskVars, pastVars>>

Succeeds == step' = "reads"
Fails == step' = "returned"

LogerExit == step = "exit" /\ Fails /\ UNCHANGED <<diskVars, input, read, pastVars>>

LogerCount ==
    /\ step = "count"
    /\ IF file = Absent THEN Fails ELSE Succeeds
    /\ UNCHANGED <<diskVars, input, read, pastVars>>

LogerRemove ==
    /\ step = "remove"
    /\ IF file = Absent THEN Fails ELSE Succeeds
    /\ file' = Absent /\ logged' = {} /\ order' = <<>>
    /\ UNCHANGED <<temp_text, temp_file, original_file, input, read, disturbed>>

\* fopen, fputs and fclose: one write.
LogerAppend ==
    /\ step = "append" /\ Succeeds
    /\ file' = Lines(file) \o Text(input.line)
    /\ logged' = logged \cup ToSet(Text(input.line)) /\ order' = order \o Text(input.line)
    /\ UNCHANGED <<temp_text, temp_file, original_file, input, read, disturbed>>

-----------------------------------------------------------------------------
(* LogerHeadAppend.                                                        *)

\* Bug: what an earlier run left in temp_text.txt is cut off.
OpenFilesRAndAPlusMode_Cut ==
    /\ step = "prepend"
    /\ temp_text' = <<>>
    /\ IF file = Absent THEN Fails /\ UNCHANGED temp_file
       ELSE step' = "copied" /\ temp_file' = <<input.line>> \o file
    /\ UNCHANGED <<file, original_file, input, read, pastVars>>

\* "a+" makes temp_text.txt or opens it at its end, also when there is no log to read.
OpenFilesRAndAPlusMode ==
    /\ step = "prepend"
    /\ temp_text' = Lines(temp_text)
    /\ IF file = Absent THEN Fails /\ UNCHANGED temp_file
       ELSE step' = "copied" /\ temp_file' = <<input.line>> \o file
    /\ UNCHANGED <<file, original_file, input, read, pastVars>>

\* The log is opened again, for writing, and is empty.
Truncate ==
    /\ step = "copied" /\ step' = "truncated"
    /\ file' = <<>>
    /\ UNCHANGED <<temp_text, temp_file, original_file, input, read, pastVars>>

\* It cannot be opened: the copy is flushed and stays.
TruncateFails ==
    /\ step = "copied" /\ Fails
    /\ temp_text' = temp_text \o temp_file /\ temp_file' = <<>>
    /\ disturbed' = (IF disturbed = "gap" THEN "gap" ELSE "yes")
    /\ UNCHANGED <<file, original_file, input, read, logged, order>>

\* fseek flushes the copy, and all of temp_text.txt is read.
CopyFileToFile ==
    /\ step = "truncated" /\ step' = "written"
    /\ temp_text' = temp_text \o temp_file /\ temp_file' = <<>>
    /\ original_file' = temp_text'
    /\ UNCHANGED <<file, input, read, pastVars>>

\* Bug: temp_text.txt is removed before the log is closed.
CloseFiles_Removed ==
    /\ step = "written" /\ step' = "closed"
    /\ temp_text' = Absent
    /\ UNCHANGED <<file, temp_file, original_file, input, read, pastVars>>

CloseFiles ==
    /\ step = "written" /\ step' = "closed"
    /\ file' = original_file /\ original_file' = <<>>
    /\ logged' = logged \cup ToSet(original_file) /\ order' = <<input.line>> \o order
    /\ UNCHANGED <<temp_text, temp_file, input, read, disturbed>>

RemoveTemp ==
    /\ step = "closed" /\ Succeeds
    /\ temp_text' = Absent
    /\ UNCHANGED <<file, temp_file, original_file, input, read, pastVars>>

LogerHeadAppend == \/ OpenFilesRAndAPlusMode \/ Truncate \/ TruncateFails \/ CopyFileToFile
                   \/ CloseFiles \/ RemoveTemp

\* The process is killed, by the user's Ctrl-C: the streams' buffers are lost.
Kill ==
    /\ step # "returned" /\ step' = "returned"
    /\ temp_file' = <<>> /\ original_file' = <<>>
    /\ disturbed' = CASE step = "truncated" -> "gap"
                      [] step \in {"written", "closed"} /\ disturbed # "gap" -> "yes"
                      [] OTHER -> disturbed
    /\ UNCHANGED <<file, temp_text, input, read, logged, order>>

\* The program is started again; its input is empty before the first line.
Logger ==
    /\ step = "returned" /\ read < MAX_LINES /\ step' = "reads"
    /\ input' = [command |-> "append", line |-> 0]
    /\ UNCHANGED <<diskVars, read, pastVars>>

FileLoggerNext == \/ ActiveCmd \/ LogerExit \/ LogerCount \/ LogerRemove \/ LogerAppend
                  \/ LogerHeadAppend \/ Kill \/ Logger

FileLoggerSpec == FileLoggerInit /\ [][FileLoggerNext]_flVars

-----------------------------------------------------------------------------
(***************************************************************************)
(* What was logged is in the log, or in temp_text.txt, from where the next *)
(* prepend brings it back; but for a process killed between fopen, which   *)
(* truncates the log, and fseek, which writes the copy.  Where no prepend  *)
(* was interrupted the log is as the commands say.                         *)
(***************************************************************************)
LogSurvives ==
    /\ disturbed # "gap" /\ step # "truncated"
        => logged \subseteq ToSet(Lines(file)) \cup ToSet(Lines(temp_text))
    /\ disturbed = "no" /\ step \in Commands \cup {"reads", "returned"} => Lines(file) = order
=============================================================================
