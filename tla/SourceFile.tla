------------------------------ MODULE SourceFile ------------------------------
(***************************************************************************)
(* ReadWholeFile of src/src/platform_linux.cc, with the calls of the       *)
(* system it makes.  A byte of the file is represented by its position,    *)
(* the '\0' the string was filled with by 0.  read answers less than it    *)
(* is asked for when it likes; EAGAIN is left out, because a file that can *)
(* be measured with lseek does not answer it.                              *)
(***************************************************************************)
EXTENDS Integers

CONSTANT MaxFile  \* the longest file considered

VARIABLES file,        \* the length of the file, which others may change
          truncated,   \* history: the file got shorter while it was being read
          fsize,       \* its length when it was measured
          content,     \* the string
          bytes_read

fileVars == <<file, truncated, fsize, content, bytes_read>>
buffer == <<fsize, content, bytes_read>>

FileInit ==
  /\ file \in 0..MaxFile /\ truncated = FALSE
  /\ fsize = 0 /\ content = <<>> /\ bytes_read = 0

\* open, lseek to the end and back, and a string of one byte more.
Measure ==
  /\ fsize' = file
  /\ content' = [i \in 1..(file + 1) |-> 0]
  /\ bytes_read' = 0
  /\ UNCHANGED <<file, truncated>>

\* @mutant: one byte more is waited for.
WantsMoreForNul == bytes_read <= fsize

WantsMore == bytes_read < fsize

\* @mutant: all the file has by now is read.
AnswersUnlimited == 1..(file - bytes_read)

\* What read may answer, apart from an error: never more than is asked for,
\* and nothing at the end of the file.
Answers ==
  LET rest == IF file < fsize THEN file - bytes_read ELSE fsize - bytes_read
  IN  IF rest > 0 THEN 1..rest ELSE {0}

\* @mutant: every read goes to the start of the string.
ReadToStart ==
  /\ WantsMore
  /\ \E r \in Answers :
       /\ content' = [i \in DOMAIN content |->
                        IF i \in 1..r THEN bytes_read + i ELSE content[i]]
       /\ bytes_read' = bytes_read + r
  /\ UNCHANGED <<file, truncated, fsize>>

Read ==
  /\ WantsMore
  /\ \E r \in Answers :
       /\ content' = [i \in DOMAIN content |->
                        IF i \in (bytes_read + 1)..(bytes_read + r) THEN i ELSE content[i]]
       /\ bytes_read' = bytes_read + r
  /\ UNCHANGED <<file, truncated, fsize>>

\* Somebody else writes to the file or truncates it.
FileChanges ==
  /\ \E length \in 0..MaxFile :
       /\ length # file
       /\ file' = length /\ truncated' = (truncated \/ length < file)
  /\ UNCHANGED buffer
===============================================================================
