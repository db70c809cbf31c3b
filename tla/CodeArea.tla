------------------------------- MODULE CodeArea -------------------------------
(***************************************************************************)
(* CodeArea of src/src/mem.h and mem.cc: a reservation of address space    *)
(* that code is appended to, made accessible page by page as it grows, and *)
(* made executable at the end.  Bytes are counted from the start of the    *)
(* reservation, pages likewise; what the bytes say is the clients' affair. *)
(* One operation per step: the loop of EmitData in closed form.            *)
(***************************************************************************)
EXTENDS Integers

CONSTANTS PageSize,   \* the bytes of a page
          Reserved,   \* the pages of the reservation, 512 MiB in the code
          MaxPiece,  \* the longest piece of code emitted at once
          Behind      \* what may come after the reservation: "unmapped", or
                      \* "foreign", another mapping of the process

\* A piece of code is never as long as a page.
ASSUME AreaAssumption ==
  /\ PageSize \in Nat /\ MaxPiece \in Nat /\ MaxPiece < PageSize
  /\ Reserved \in Nat \ {0}
  /\ Behind \subseteq {"unmapped", "foreign"}

VARIABLES size,       \* where the next byte of code goes
          allocated,  \* how many pages were made accessible
          err,        \* set when the reservation was used up
          prot,       \* the protection of each page, and of the one behind them
          area        \* "open", "sealed" or "gone"; "exited" with the process

bookkeeping == <<size, allocated, err>>
areaVars == <<bookkeeping, prot, area>>

Pages == 0..(Reserved - 1)

\* "none", "rw" and "rx" are set by Protect; "foreign" pages have whatever
\* protection their owner gave them.
Protections == {"none", "rw", "rx", "unmapped", "foreign"}

TypeOK ==
  /\ size \in Nat /\ allocated \in Nat /\ err \in BOOLEAN
  /\ prot \in [0..Reserved -> Protections]
  /\ area \in {"open", "sealed", "gone", "exited"}

\* Create: nothing is accessible yet, and the first page is left out.
Init ==
  /\ size = PageSize /\ allocated = 0 /\ err = FALSE
  /\ \E behind \in Behind : prot = [p \in 0..Reserved |-> IF p \in Pages THEN "none" ELSE behind]
  /\ area = "open"

\* mprotect of all of the pages, which the system grants.
Protect(pages, access) ==
  /\ \A p \in pages : prot[p] # "unmapped"
  /\ prot' = [p \in DOMAIN prot |-> IF p \in pages THEN access ELSE prot[p]]

\* @mutant: the length of the piece is forgotten.
PagesAfterIgnoring(length) ==
  IF size \div PageSize + 1 > allocated THEN size \div PageSize + 1 ELSE allocated

\* The pages accessible once there is room for length bytes: one more than
\* the bytes fill.
PagesFor(length) == (size + length) \div PageSize + 1
PagesAfter(length) == IF PagesFor(length) > allocated THEN PagesFor(length) ELSE allocated

\* @mutant: the last page of the reservation is taken for the end of it.
StoreEarlyError(length) ==
  /\ ~err
  /\ allocated' = PagesAfter(length)
  /\ Protect(allocated..(allocated' - 1), "rw")
  /\ err' = (allocated' >= Reserved)
  /\ size' = size + length
  /\ UNCHANGED area

Store(length) ==
  /\ ~err
  /\ allocated' = PagesAfter(length)
  /\ Protect(allocated..(allocated' - 1), "rw")
  /\ err' = (allocated' > Reserved)
  /\ size' = size + length
  /\ UNCHANGED area

\* After an error nothing is written any more.
Ignore == err /\ UNCHANGED areaVars

EmitData(length) == area = "open" /\ (Store(length) \/ Ignore)

\* Ensure: the process ends if a page cannot be made accessible, be it that
\* the system refuses or that there is no page.
EmitFails(length) ==
  /\ area = "open" /\ ~err /\ PagesAfter(length) # allocated
  /\ area' = "exited" /\ UNCHANGED <<bookkeeping, prot>>

\* @mutant: the page the code ends in is left as it is.
MakeExecutableShort ==
  /\ area = "open" /\ area' = "sealed"
  /\ Protect(0..(size \div PageSize - 1), "rx")
  /\ UNCHANGED bookkeeping

\* @mutant: the code is made executable but stays writable.
MakeExecutableWritable ==
  /\ area = "open" /\ area' = "sealed"
  /\ Protect(0..(allocated - 1), "rwx")
  /\ UNCHANGED bookkeeping

MakeExecutable ==
  /\ area = "open" /\ area' = "sealed"
  /\ Protect(0..(allocated - 1), "rx")
  /\ UNCHANGED bookkeeping

MakeExecutableFails ==
  /\ area = "open" /\ area' = "exited" /\ UNCHANGED <<bookkeeping, prot>>

\* HasWriteError: the client gives up, and main exits with OutOfMemory.
GiveUp == area = "open" /\ err /\ area' = "exited" /\ UNCHANGED <<bookkeeping, prot>>

\* ~CodeArea unmaps what was allocated; the rest stays reserved.
Destroy ==
  /\ area \in {"open", "sealed"} /\ area' = "gone"
  /\ prot' = [p \in DOMAIN prot |-> IF p < allocated THEN "unmapped" ELSE prot[p]]
  /\ UNCHANGED bookkeeping

\* A client that emits what it likes and asks for the error now and then, at
\* the latest before it seals the area.
Next ==
  \/ \E length \in 1..MaxPiece : EmitData(length) \/ EmitFails(length)
  \/ GiveUp
  \/ ~err /\ (MakeExecutable \/ MakeExecutableFails)
  \/ area = "sealed" /\ Destroy

Spec == Init /\ [][Next]_areaVars

-----------------------------------------------------------------------------
(* Properties *)

\* The pages with code in them.
CodePages == {p \in 1..Reserved : p * PageSize < size}

\* As long as the area exists every page with code in it was made accessible:
\* neither EmitData nor a later patch writes where it may not.
WrittenIsBacked ==
  area \in {"open", "sealed"} =>
    \A p \in CodePages : prot[p] = IF area = "open" THEN "rw" ELSE "rx"

\* An area is executed only when all code went in, all of it is executable,
\* and none of the reservation can be written any more.
SealedForGood ==
  area = "sealed" =>
    /\ ~err /\ size <= Reserved * PageSize
    /\ \A p \in Pages : prot[p] # "rw"

\* The error is not raised as long as the reservation has room: code whose
\* last byte comes before its end is never refused.
ErrMeansFull == err => size >= Reserved * PageSize

\* Compile answers a write error with OutOfMemory (compiler.cc:19-21, 90-92)
\* and the area ends with its reservation (mem.cc:79): nothing behind it is
\* made accessible, written or unmapped.
Contained == allocated <= Reserved
===============================================================================
