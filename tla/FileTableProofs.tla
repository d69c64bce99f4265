-------------------------- MODULE FileTableProofs ---------------------------
(***************************************************************************)
(* Proofs about FileTable for every table size and every filesystem.      *)
(***************************************************************************)
EXTENDS FileTable, WellFoundedInduction, TLAPS

LEMMA NatTotal ==
    ASSUME NEW x \in Nat, NEW y \in Nat, ~(y < x)
    PROVE  x <= y
    OBVIOUS

(* Not below in the less-than relation of Nat is at least. *)
LEMMA NotLessIsAtLeast ==
    ASSUME NEW x \in Nat, NEW y \in Nat, ~(<<y, x>> \in OpToRel(<, Nat))
    PROVE  x <= y
<1>1. <<y, x>> \in Nat \X Nat
    OBVIOUS
<1>2. OpToRel(<, Nat) = {ss \in Nat \X Nat : ss[1] < ss[2]}
    BY DEF OpToRel
<1>3. <<y, x>>[1] = y /\ <<y, x>>[2] = x
    OBVIOUS
<1>5. y < x => <<y, x>> \in {ss \in Nat \X Nat : ss[1] < ss[2]}
    BY <1>1, <1>3, Zenon
<1>6. ~(y < x)
    BY <1>2, <1>5, Zenon
<1>4. QED
    BY <1>6, NatTotal, Zenon

(* The loop of file_open finds a slot whenever one is free. *)
LEMMA FirstFreeFree ==
    ASSUME FreeSlots # {}
    PROVE  /\ FirstFree \in FreeSlots
           /\ FirstFree \in 2 .. MAX_FILES - 1
           /\ ~files[FirstFree].valid
<1>1. FreeSlots \subseteq Nat
    BY FileAssumption DEF FreeSlots
<1>2. \E x \in FreeSlots : \A y \in FreeSlots : ~(<<y, x>> \in OpToRel(<, Nat))
    BY <1>1, NatLessThanWellFounded, WFMin
<1>3. \E x \in FreeSlots : \A y \in FreeSlots : x <= y
    <2>1. PICK x \in FreeSlots : \A y \in FreeSlots : ~(<<y, x>> \in OpToRel(<, Nat))
        BY <1>2
    <2>2. \A y \in FreeSlots : x <= y
        BY <1>1, <2>1, NotLessIsAtLeast
    <2>3. QED
        BY <2>2
<1>4. FirstFree \in FreeSlots
    BY <1>3 DEF FirstFree
<1>5. QED
    BY <1>4 DEF FreeSlots

-----------------------------------------------------------------------------
(* A held name has a dentry of a type init_file_obj knows. *)
HeldKnown ==
    \A fd \in Fds :
        held[fd] \in Names =>
            Dentry[held[fd]] # NoEntry /\ Dentry[held[fd]].type \in KnownTypes

(* The inductive invariant. *)
IInv == TypeOK /\ HeldIsValid /\ SlotMatchesOpen /\ HeldKnown

LEMMA OpsForKnown ==
    ASSUME NEW t \in KnownTypes
    PROVE  OpsFor(t) \in OpsTables \ {"fops_stdin", "fops_stdout"}
    BY DEF OpsFor, KnownTypes, OpsTables

LEMMA InitIInv == Init => IInv
<1> SUFFICES ASSUME Init PROVE IInv
    OBVIOUS
<1>1. PICK junk \in [2 .. MAX_FILES - 1 -> Slots] :
          files = [fd \in Fds |->
                     IF fd = FD_STDIN THEN StdSlot("fops_stdin")
                     ELSE IF fd = FD_STDOUT THEN StdSlot("fops_stdout")
                     ELSE SetValid(junk[fd], FALSE)]
    BY DEF Init
<1>2. MaxOffset \in Nat /\ MAX_FILES \in Nat /\ MAX_FILES > 2
    BY FileAssumption
<1>3. \A fd \in Fds : fd \notin {0, 1} => fd \in 2 .. MAX_FILES - 1
    BY <1>2 DEF Fds
<1>4. \A fd \in Fds :
          files[fd] = IF fd = 0 THEN StdSlot("fops_stdin")
                      ELSE IF fd = 1 THEN StdSlot("fops_stdout")
                      ELSE SetValid(junk[fd], FALSE)
    BY <1>1 DEF FD_STDIN, FD_STDOUT
<1>5. ASSUME NEW fd \in Fds, fd \notin {0, 1}
      PROVE  files[fd] \in Slots /\ ~files[fd].valid
    <2>1. junk[fd] \in Slots
        BY <1>3, <1>5
    <2>2. files[fd] = SetValid(junk[fd], FALSE)
        BY <1>4, <1>5
    <2>3. SetValid(junk[fd], FALSE) \in Slots /\ ~SetValid(junk[fd], FALSE).valid
        BY <2>1 DEF Slots, SetValid
    <2>4. QED
        BY <2>2, <2>3
<1>6. StdSlot("fops_stdin") \in Slots /\ StdSlot("fops_stdout") \in Slots
    BY <1>2 DEF StdSlot, Slots, OpsTables
<1>7. files \in [Fds -> Slots]
    BY <1>1, <1>4, <1>5, <1>6
<1>8. /\ 0 \in Fds /\ 1 \in Fds
      /\ files[0] = StdSlot("fops_stdin") /\ files[1] = StdSlot("fops_stdout")
    <2>1. 0 \in Fds /\ 1 \in Fds
        BY <1>2 DEF Fds
    <2>2. files[0] = IF 0 = 0 THEN StdSlot("fops_stdin")
                     ELSE IF 0 = 1 THEN StdSlot("fops_stdout")
                     ELSE SetValid(junk[0], FALSE)
        BY <2>1, <1>4
    <2>3. files[1] = IF 1 = 0 THEN StdSlot("fops_stdin")
                     ELSE IF 1 = 1 THEN StdSlot("fops_stdout")
                     ELSE SetValid(junk[1], FALSE)
        BY <2>1, <1>4
    <2>4. QED
        BY <2>1, <2>2, <2>3
<1>9. /\ files[0].valid /\ files[0].ops = "fops_stdin"
      /\ files[1].valid /\ files[1].ops = "fops_stdout"
    BY <1>8 DEF StdSlot
<1>10. \A fd \in Fds : files[fd].valid => files[fd].ops \in OpsTables
    BY <1>5, <1>9 DEF OpsTables
<1>11. TypeOK
    <2>1. held \in [Fds -> Names \cup {"stdin", "stdout", "free"}]
        BY DEF Init
    <2>2. readSince \in [Fds -> BOOLEAN]
        BY DEF Init
    <2>3. -1 \in FdArgs
        BY <1>2 DEF FdArgs
    <2>4. last \in [call : Calls, fd : FdArgs, reached : BOOLEAN]
        BY <2>3 DEF Init, Calls
    <2>5. QED
        BY <1>7, <1>10, <2>1, <2>2, <2>4 DEF TypeOK
<1>12. HeldIsValid
    BY <1>5, <1>9 DEF Init, HeldIsValid, FD_STDIN, FD_STDOUT
<1>13. SlotMatchesOpen /\ HeldKnown
    BY <1>9, FileAssumption
       DEF Init, SlotMatchesOpen, HeldKnown, FD_STDIN, FD_STDOUT
<1>14. QED
    BY <1>11, <1>12, <1>13 DEF IInv

LastType == [call : Calls, fd : FdArgs, reached : BOOLEAN]

(* A step that leaves the table and the history of descriptors alone. *)
LEMMA SameTable ==
    ASSUME IInv, files' = files, held' = held, readSince' = readSince,
           last' \in LastType
    PROVE  IInv'
    BY DEF IInv, TypeOK, HeldIsValid, SlotMatchesOpen, HeldKnown, LastType

(* The facts of IInv about one slot. *)
LEMMA SlotFacts ==
    ASSUME IInv, NEW fd \in Fds
    PROVE  /\ files[fd] \in Slots
           /\ files[fd].valid <=> held[fd] # "free"
    BY DEF IInv, TypeOK, HeldIsValid

(* init_file_obj on a dentry of an unknown type resets inode and offset  *)
(* of a free slot and leaves it free.                                     *)
LEMMA UnknownTypeStep ==
    ASSUME IInv, NEW i \in 2 .. MAX_FILES - 1, ~files[i].valid,
           files' = [files EXCEPT ![i] = ResetObj(files[i])],
           held' = held, readSince' = readSince, last' \in LastType
    PROVE  IInv'
<1>1. i \in Fds /\ MaxOffset \in Nat
    BY FileAssumption DEF Fds
<1>2. files[i] \in Slots /\ held[i] = "free"
    BY <1>1, SlotFacts
<1>3. files'[i] = ResetObj(files[i])
    BY <1>1 DEF IInv, TypeOK
<1>4. files'[i] \in Slots /\ ~files'[i].valid
    BY <1>1, <1>2, <1>3 DEF Slots, ResetObj
<1>5. \A fd \in Fds \ {i} : files'[fd] = files[fd]
    BY DEF IInv, TypeOK
<1>6. files' \in [Fds -> Slots]
    BY <1>1, <1>4, <1>5 DEF IInv, TypeOK
<1>7. TypeOK'
    BY <1>4, <1>5, <1>6 DEF IInv, TypeOK, LastType
<1>8. HeldIsValid'
    BY <1>1, <1>2, <1>4, <1>5 DEF IInv, HeldIsValid
<1>10. SlotMatchesOpen' /\ HeldKnown'
    <2> SUFFICES ASSUME NEW fd \in Fds
                 PROVE  SlotMatchesOpen!(fd)' /\ HeldKnown!(fd)'
        BY DEF SlotMatchesOpen, HeldKnown
    <2>1. CASE fd = i
        <3>1. "free" \notin Names
            BY FileAssumption
        <3>2. QED
            BY <2>1, <1>2, <3>1
    <2>2. CASE fd # i
        BY <2>2, <1>5 DEF IInv, SlotMatchesOpen, HeldKnown
    <2>3. QED
        BY <2>1, <2>2
<1>9. QED
    BY <1>7, <1>8, <1>10 DEF IInv

(* open() of a name with a dentry of a known type: the first free slot is *)
(* initialized, and kept only if the driver's open succeeds.               *)
LEMMA KnownTypeStep ==
    ASSUME IInv, NEW n \in Names, NEW i \in 2 .. MAX_FILES - 1,
           ~files[i].valid,
           Dentry[n] # NoEntry, Dentry[n].type \in KnownTypes,
           NEW ok \in BOOLEAN,
           files' = [files EXCEPT ![i] = SetValid(InitFileObj(files[i], Dentry[n]), ok)],
           held' = IF ok THEN [held EXCEPT ![i] = n] ELSE held,
           readSince' = IF ok THEN [readSince EXCEPT ![i] = FALSE] ELSE readSince,
           last' \in LastType
    PROVE  IInv'
<1> DEFINE d == Dentry[n]
<1>1. i \in Fds /\ MaxOffset \in Nat /\ i # 0 /\ i # 1
    BY FileAssumption DEF Fds
<1>2. files[i] \in Slots /\ held[i] = "free"
    BY <1>1, SlotFacts
<1>3. d \in [type : STRING, inode : Inodes]
    BY FileAssumption
<1>4. OpsFor(d.type) \in OpsTables \ {"fops_stdin", "fops_stdout"}
    BY OpsForKnown
<1>5. /\ files'[i].valid = ok
      /\ files'[i].ops = OpsFor(d.type)
      /\ files'[i].inode = (IF d.type = "FTYPE_FILE" THEN d.inode ELSE 0)
      /\ files'[i].offset = 0
    BY <1>1, <1>2 DEF IInv, TypeOK, InitFileObj, SetValid
<1>6. files'[i] \in Slots
    <2>1. files'[i] = [valid |-> files'[i].valid, ops |-> files'[i].ops,
                       inode |-> files'[i].inode, offset |-> files'[i].offset]
        BY <1>1, <1>2 DEF IInv, TypeOK, InitFileObj, SetValid
    <2>2. files'[i].inode \in {0} \cup Inodes
        BY <1>3, <1>5
    <2>3. QED
        BY <1>1, <1>4, <1>5, <2>1, <2>2 DEF Slots
<1>7. /\ \A fd \in Fds \ {i} : files'[fd] = files[fd]
      /\ \A fd \in Fds \ {i} : held'[fd] = held[fd]
      /\ \A fd \in Fds \ {i} : readSince'[fd] = readSince[fd]
    BY DEF IInv, TypeOK
<1>8. held'[i] = (IF ok THEN n ELSE "free") /\ (ok => readSince'[i] = FALSE)
    BY <1>1, <1>2 DEF IInv, TypeOK
<1>9. /\ files' \in [Fds -> Slots]
      /\ held' \in [Fds -> Names \cup {"stdin", "stdout", "free"}]
      /\ readSince' \in [Fds -> BOOLEAN]
    BY <1>1, <1>6 DEF IInv, TypeOK
<1>10. TypeOK'
    BY <1>4, <1>5, <1>7, <1>9 DEF IInv, TypeOK, LastType
<1>12. n \notin {"stdin", "stdout", "free"} /\ "free" \notin Names
    BY FileAssumption
<1>11. HeldIsValid'
    BY <1>1, <1>2, <1>5, <1>7, <1>8, <1>12 DEF IInv, HeldIsValid
<1>13. SlotMatchesOpen'
    <2> SUFFICES ASSUME NEW fd \in Fds
                 PROVE  SlotMatchesOpen!(fd)'
        BY DEF SlotMatchesOpen
    <2>1. CASE fd = i /\ ok
        <3>1. held'[i] = n /\ Dentry[held'[i]] = d
            BY <2>1, <1>8
        <3>2. files'[fd].offset # 0 => readSince'[fd]
            BY <2>1, <1>5
        <3>3. /\ held'[fd] # "stdin" /\ held'[fd] # "stdout"
              /\ files'[fd].ops = OpsFor(Dentry[held'[fd]].type)
              /\ files'[fd].inode = (IF Dentry[held'[fd]].type = "FTYPE_FILE"
                                     THEN Dentry[held'[fd]].inode ELSE 0)
            <4>1. held'[fd] = n /\ files'[fd] = files'[i]
                BY <2>1, <3>1
            <4>2. held'[fd] # "stdin" /\ held'[fd] # "stdout"
                BY <4>1, <1>12
            <4>3. files'[fd].ops = OpsFor(Dentry[n].type)
                BY <4>1, <1>5 DEF d
            <4>4. files'[fd].inode = (IF Dentry[n].type = "FTYPE_FILE"
                                      THEN Dentry[n].inode ELSE 0)
                BY <4>1, <1>5 DEF d
            <4>5. QED
                BY <4>1, <4>2, <4>3, <4>4
        <3>4. QED
            BY <3>2, <3>3
    <2>4. CASE fd = i /\ ~ok
        BY <2>4, <1>1, <1>8, <1>12
    <2>2. CASE fd # i
        BY <2>2, <1>7 DEF IInv, SlotMatchesOpen
    <2>3. QED
        BY <2>1, <2>2, <2>4
<1>14. HeldKnown'
    BY <1>7, <1>8 DEF IInv, HeldKnown
<1>15. QED
    BY <1>10, <1>11, <1>13, <1>14 DEF IInv

(* A read through an open file or directory moves its offset, and marks  *)
(* the descriptor as read.                                                *)
LEMMA ReadOffsetStep ==
    ASSUME IInv, NEW fd \in Fds, files[fd].valid,
           NEW o \in files[fd].offset .. MaxOffset,
           files' = [files EXCEPT ![fd] = SetOffset(files[fd], o)],
           readSince' = [readSince EXCEPT ![fd] = TRUE],
           held' = held, last' \in LastType
    PROVE  IInv'
<1>1. files[fd] \in Slots /\ MaxOffset \in Nat
    BY SlotFacts, FileAssumption
<1>2. files[fd].offset \in Nat
    BY <1>1 DEF Slots
<1>3. o \in 0 .. MaxOffset
    BY <1>1, <1>2
<1>4. /\ files'[fd] \in Slots
      /\ files'[fd].valid = files[fd].valid
      /\ files'[fd].ops = files[fd].ops
      /\ files'[fd].inode = files[fd].inode
    BY <1>1, <1>3 DEF IInv, TypeOK, SetOffset, Slots
<1>5. /\ \A g \in Fds \ {fd} : files'[g] = files[g]
      /\ \A g \in Fds \ {fd} : readSince'[g] = readSince[g]
      /\ readSince'[fd] = TRUE
      /\ files' \in [Fds -> Slots] /\ readSince' \in [Fds -> BOOLEAN]
    BY <1>4 DEF IInv, TypeOK
<1>6. TypeOK'
    BY <1>4, <1>5 DEF IInv, TypeOK, LastType
<1>7. HeldIsValid'
    BY <1>4, <1>5 DEF IInv, HeldIsValid
<1>8. SlotMatchesOpen'
    <2> SUFFICES ASSUME NEW g \in Fds PROVE SlotMatchesOpen!(g)'
        BY DEF SlotMatchesOpen
    <2>1. CASE g = fd
        BY <2>1, <1>4, <1>5 DEF IInv, SlotMatchesOpen
    <2>2. CASE g # fd
        BY <2>2, <1>5 DEF IInv, SlotMatchesOpen
    <2>3. QED
        BY <2>1, <2>2
<1>9. HeldKnown'
    BY DEF IInv, HeldKnown
<1>10. QED
    BY <1>6, <1>7, <1>8, <1>9 DEF IInv

(* A read that leaves the table alone still marks the descriptor read. *)
LEMMA ReadMarkStep ==
    ASSUME IInv, NEW fd \in Fds, files' = files,
           readSince' = [readSince EXCEPT ![fd] = TRUE],
           held' = held, last' \in LastType
    PROVE  IInv'
<1>1. /\ \A g \in Fds \ {fd} : readSince'[g] = readSince[g]
      /\ readSince'[fd] = TRUE /\ readSince' \in [Fds -> BOOLEAN]
    BY DEF IInv, TypeOK
<1>2. TypeOK' /\ HeldIsValid' /\ HeldKnown'
    BY <1>1 DEF IInv, TypeOK, LastType, HeldIsValid, HeldKnown
<1>3. SlotMatchesOpen'
    <2> SUFFICES ASSUME NEW g \in Fds PROVE SlotMatchesOpen!(g)'
        BY DEF SlotMatchesOpen
    <2>1. CASE g = fd
        BY <2>1, <1>1 DEF IInv, SlotMatchesOpen
    <2>2. CASE g # fd
        BY <2>2, <1>1 DEF IInv, SlotMatchesOpen
    <2>3. QED
        BY <2>1, <2>2
<1>4. QED
    BY <1>2, <1>3 DEF IInv

(* A close whose driver succeeded frees the slot and the descriptor. *)
LEMMA CloseFreeStep ==
    ASSUME IInv, NEW fd \in Fds,
           files' = [files EXCEPT ![fd] = SetValid(files[fd], FALSE)],
           held' = [held EXCEPT ![fd] = "free"],
           readSince' = readSince, last' \in LastType
    PROVE  IInv'
<1>1. files[fd] \in Slots
    BY SlotFacts
<1>2. files'[fd] \in Slots /\ ~files'[fd].valid
    BY <1>1 DEF IInv, TypeOK, SetValid, Slots
<1>3. /\ \A g \in Fds \ {fd} : files'[g] = files[g]
      /\ \A g \in Fds \ {fd} : held'[g] = held[g]
      /\ held'[fd] = "free"
      /\ files' \in [Fds -> Slots]
      /\ held' \in [Fds -> Names \cup {"stdin", "stdout", "free"}]
    BY <1>2 DEF IInv, TypeOK
<1>4. "free" \notin Names
    BY FileAssumption
<1>5. TypeOK'
    BY <1>2, <1>3 DEF IInv, TypeOK, LastType
<1>6. HeldIsValid'
    BY <1>2, <1>3 DEF IInv, HeldIsValid
<1>7. SlotMatchesOpen' /\ HeldKnown'
    <2> SUFFICES ASSUME NEW g \in Fds
                 PROVE  SlotMatchesOpen!(g)' /\ HeldKnown!(g)'
        BY DEF SlotMatchesOpen, HeldKnown
    <2>1. CASE g = fd
        BY <2>1, <1>3, <1>4
    <2>2. CASE g # fd
        BY <2>2, <1>3 DEF IInv, SlotMatchesOpen, HeldKnown
    <2>3. QED
        BY <2>1, <2>2
<1>8. QED
    BY <1>5, <1>6, <1>7 DEF IInv

(* Every syscall leaves a well-typed record of itself. *)
LEMMA RetType ==
    ASSUME NEW c \in Calls, NEW fd \in FdArgs, NEW r \in BOOLEAN, Ret(c, fd, r)
    PROVE  last' \in LastType
    BY DEF Ret, LastType

LEMMA OpenStep ==
    ASSUME IInv, NEW n \in Names \cup BadNames, FileOpen(n)
    PROVE  IInv'
<1>1. MAX_FILES \in Nat /\ MAX_FILES > 2 /\ -1 \in FdArgs
    BY FileAssumption DEF FdArgs
<1>2. CASE n \in BadNames \/ FreeSlots = {}
    <2>1. Ret("open", -1, FALSE) /\ UNCHANGED <<files, held, readSince>>
        BY <1>2, FileAssumption DEF FileOpen
    <2>2. QED
        BY <1>1, <2>1, RetType, SameTable DEF Calls
<1>3. CASE n \notin BadNames /\ FreeSlots # {}
    <2> DEFINE i == FirstFree
    <2> DEFINE d == Dentry[n]
    <2>1. i \in 2 .. MAX_FILES - 1 /\ ~files[i].valid /\ n \in Names
        BY <1>3, FirstFreeFree
    <2>2. i \in FdArgs
        BY <1>1, <2>1 DEF FdArgs
    <2>3. \/ d = NoEntry /\ Ret("open", -1, FALSE)
             /\ UNCHANGED <<files, held, readSince>>
          \/ d # NoEntry /\ d.type \notin KnownTypes
             /\ files' = [files EXCEPT ![i] = ResetObj(files[i])]
             /\ Ret("open", -1, FALSE) /\ UNCHANGED <<held, readSince>>
          \/ d # NoEntry /\ d.type \in KnownTypes
             /\ \E ok \in BOOLEAN :
                   /\ files' = [files EXCEPT ![i] = SetValid(InitFileObj(files[i], d), ok)]
                   /\ Ret("open", IF ok THEN i ELSE -1, TRUE)
                   /\ held' = IF ok THEN [held EXCEPT ![i] = n] ELSE held
                   /\ readSince' = IF ok THEN [readSince EXCEPT ![i] = FALSE]
                                   ELSE readSince
        BY <1>3 DEF FileOpen
    <2>4. CASE d = NoEntry /\ Ret("open", -1, FALSE)
               /\ UNCHANGED <<files, held, readSince>>
        BY <1>1, <2>4, RetType, SameTable DEF Calls
    <2>5. CASE d # NoEntry /\ d.type \notin KnownTypes
               /\ files' = [files EXCEPT ![i] = ResetObj(files[i])]
               /\ Ret("open", -1, FALSE) /\ UNCHANGED <<held, readSince>>
        <3>1. last' \in LastType
            BY <1>1, <2>5, RetType DEF Calls
        <3>2. QED
            BY <2>1, <2>5, <3>1, UnknownTypeStep
    <2>6. CASE d # NoEntry /\ d.type \in KnownTypes
               /\ \E ok \in BOOLEAN :
                   /\ files' = [files EXCEPT ![i] = SetValid(InitFileObj(files[i], d), ok)]
                   /\ Ret("open", IF ok THEN i ELSE -1, TRUE)
                   /\ held' = IF ok THEN [held EXCEPT ![i] = n] ELSE held
                   /\ readSince' = IF ok THEN [readSince EXCEPT ![i] = FALSE]
                                   ELSE readSince
        <3>1. PICK ok \in BOOLEAN :
                   /\ files' = [files EXCEPT ![i] = SetValid(InitFileObj(files[i], d), ok)]
                   /\ Ret("open", IF ok THEN i ELSE -1, TRUE)
                   /\ held' = IF ok THEN [held EXCEPT ![i] = n] ELSE held
                   /\ readSince' = IF ok THEN [readSince EXCEPT ![i] = FALSE]
                                   ELSE readSince
            BY <2>6
        <3>2. (IF ok THEN i ELSE -1) \in FdArgs
            BY <1>1, <2>2
        <3>3. last' \in LastType
            BY <3>1, <3>2, RetType DEF Calls
        <3>4. QED
            BY <2>1, <2>6, <3>1, <3>3, KnownTypeStep
    <2>7. QED
        BY <2>3, <2>4, <2>5, <2>6
<1>4. QED
    BY <1>2, <1>3

LEMMA ReadStep ==
    ASSUME IInv, NEW fd \in FdArgs, FileRead(fd)
    PROVE  IInv'
<1>1. CASE ~IsOpenFd(fd)
    BY <1>1, RetType, SameTable DEF FileRead, Calls
<1>2. CASE IsOpenFd(fd)
    <2>1. fd \in Fds /\ files[fd].valid
        BY <1>2, FileAssumption DEF IsOpenFd, FdArgs, Fds
    <2>2. last' \in LastType /\ held' = held
          /\ readSince' = [readSince EXCEPT ![fd] = TRUE]
        BY <1>2, RetType DEF FileRead, IsOpenFd, Calls
    <2>3. CASE files[fd].ops \in {"fops_file", "fops_dir"}
        <3>1. PICK o \in files[fd].offset .. MaxOffset :
                 files' = [files EXCEPT ![fd] = SetOffset(files[fd], o)]
            BY <1>2, <2>3 DEF FileRead, IsOpenFd
        <3>2. QED
            BY <2>1, <2>2, <3>1, ReadOffsetStep
    <2>4. CASE files[fd].ops \notin {"fops_file", "fops_dir"}
        <3>1. files' = files
            BY <1>2, <2>4 DEF FileRead, IsOpenFd
        <3>2. QED
            BY <2>1, <2>2, <3>1, ReadMarkStep
    <2>5. QED
        BY <2>3, <2>4
<1>3. QED
    BY <1>1, <1>2

LEMMA WriteStep ==
    ASSUME IInv, NEW fd \in FdArgs, FileWrite(fd)
    PROVE  IInv'
<1>1. IsOpenFd(fd) \in BOOLEAN
    BY DEF IsOpenFd
<1>2. QED
    BY <1>1, RetType, SameTable DEF FileWrite, Calls

LEMMA CloseStep ==
    ASSUME IInv, NEW fd \in FdArgs, FileClose(fd)
    PROVE  IInv'
<1>1. CASE ~IsOpenFd(fd)
    BY <1>1, RetType, SameTable DEF FileClose, Calls
<1>2. CASE IsOpenFd(fd)
    <2>1. fd \in Fds
        BY <1>2, FileAssumption DEF IsOpenFd, FdArgs, Fds
    <2>2. last' \in LastType /\ readSince' = readSince
        BY <1>2, RetType DEF FileClose, IsOpenFd, Calls
    <2>3. PICK ok \in BOOLEAN :
             /\ files' = IF ok THEN [files EXCEPT ![fd] = SetValid(files[fd], FALSE)]
                         ELSE files
             /\ held' = IF ok THEN [held EXCEPT ![fd] = "free"] ELSE held
        BY <1>2 DEF FileClose, IsOpenFd
    <2>4. CASE ok
        BY <2>1, <2>2, <2>3, <2>4, CloseFreeStep
    <2>5. CASE ~ok
        BY <2>2, <2>3, <2>5, SameTable
    <2>6. QED
        BY <2>4, <2>5
<1>3. QED
    BY <1>1, <1>2

LEMMA NextIInv == IInv /\ [Next]_vars => IInv'
<1> SUFFICES ASSUME IInv, [Next]_vars PROVE IInv'
    OBVIOUS
<1>1. CASE \E n \in Names \cup BadNames : FileOpen(n)
    BY <1>1, OpenStep
<1>2. CASE \E fd \in FdArgs : FileRead(fd) \/ FileWrite(fd) \/ FileClose(fd)
    BY <1>2, ReadStep, WriteStep, CloseStep
<1>3. CASE UNCHANGED vars
    BY <1>3 DEF IInv, TypeOK, HeldIsValid, SlotMatchesOpen, HeldKnown, vars
<1>4. QED
    BY <1>1, <1>2, <1>3 DEF Next

-----------------------------------------------------------------------------
(* The table, the history and the record of the last syscall keep their  *)
(* types in every behaviour, so every open slot has an ops table.         *)
THEOREM TypeCorrect == Spec => []TypeOK
<1>1. Spec => []IInv
    BY InitIInv, NextIInv, PTL DEF Spec
<1>2. QED
    BY <1>1, PTL DEF IInv

(* A slot of pcb->files is valid exactly when the program holds it, for   *)
(* every table size: a failed driver open never leaks a slot.             *)
THEOREM HeldIsValidHolds == Spec => []HeldIsValid
<1>1. Spec => []IInv
    BY InitIInv, NextIInv, PTL DEF Spec
<1>2. QED
    BY <1>1, PTL DEF IInv

(* A held descriptor names the ops and inode of what open() was given,   *)
(* with an offset only its own reads have moved, for every filesystem.    *)
THEOREM SlotMatchesOpenHolds == Spec => []SlotMatchesOpen
<1>1. Spec => []IInv
    BY InitIInv, NextIInv, PTL DEF Spec
<1>2. QED
    BY <1>1, PTL DEF IInv

(* A read, write or close that reaches a driver reaches it through a held *)
(* descriptor: the bounds and valid checks of get_executing_file_obj      *)
(* together with HeldIsValid.                                              *)
DispatchStep ==
    last'.call # "open" /\ last'.reached =>
        last'.fd \in Fds /\ held[last'.fd] # "free"

LEMMA DispatchByOpenFd ==
    ASSUME IInv, NEW c \in Calls, NEW fd \in FdArgs,
           last' = [call |-> c, fd |-> fd, reached |-> IsOpenFd(fd)]
    PROVE  DispatchStep
<1>1. CASE IsOpenFd(fd)
    <2>1. fd \in Fds /\ files[fd].valid
        BY <1>1, FileAssumption DEF IsOpenFd, FdArgs, Fds
    <2>2. held[fd] # "free"
        BY <2>1 DEF IInv, HeldIsValid
    <2>3. QED
        BY <2>1, <2>2 DEF DispatchStep
<1>2. CASE ~IsOpenFd(fd)
    BY <1>2 DEF DispatchStep
<1>3. QED
    BY <1>1, <1>2

LEMMA NextDispatch == IInv /\ [Next]_vars => [DispatchStep]_vars
<1> SUFFICES ASSUME IInv, [Next]_vars PROVE [DispatchStep]_vars
    OBVIOUS
<1>1. CASE \E n \in Names \cup BadNames : FileOpen(n)
    <2>1. last'.call = "open"
        BY <1>1 DEF FileOpen, Ret
    <2>2. QED
        BY <2>1 DEF DispatchStep
<1>2. ASSUME NEW fd \in FdArgs, FileRead(fd) PROVE DispatchStep
    <2>1. CASE IsOpenFd(fd)
        <3>1. last' = [call |-> "read", fd |-> fd, reached |-> IsOpenFd(fd)]
            BY <1>2, <2>1 DEF FileRead, Ret
        <3>2. QED
            BY <3>1, DispatchByOpenFd DEF Calls
    <2>2. CASE ~IsOpenFd(fd)
        <3>1. last' = [call |-> "read", fd |-> fd, reached |-> FALSE]
            BY <1>2, <2>2 DEF FileRead, Ret
        <3>2. QED
            BY <3>1 DEF DispatchStep
    <2>3. QED
        BY <2>1, <2>2
<1>3. ASSUME NEW fd \in FdArgs, FileWrite(fd) PROVE DispatchStep
    <2>1. last' = [call |-> "write", fd |-> fd, reached |-> IsOpenFd(fd)]
        BY <1>3 DEF FileWrite, Ret
    <2>2. QED
        BY <2>1, DispatchByOpenFd DEF Calls
<1>4. ASSUME NEW fd \in FdArgs, FileClose(fd) PROVE DispatchStep
    <2>1. CASE IsOpenFd(fd)
        <3>1. last' = [call |-> "close", fd |-> fd, reached |-> IsOpenFd(fd)]
            BY <1>4, <2>1 DEF FileClose, Ret
        <3>2. QED
            BY <3>1, DispatchByOpenFd DEF Calls
    <2>2. CASE ~IsOpenFd(fd)
        <3>1. last' = [call |-> "close", fd |-> fd, reached |-> FALSE]
            BY <1>4, <2>2 DEF FileClose, Ret
        <3>2. QED
            BY <3>1 DEF DispatchStep
    <2>3. QED
        BY <2>1, <2>2
<1>5. CASE UNCHANGED vars
    BY <1>5
<1>6. QED
    BY <1>1, <1>2, <1>3, <1>4, <1>5 DEF Next

(* No driver is called through a descriptor the program does not hold, *)
(* whatever the table size and the file descriptors passed.            *)
THEOREM DispatchOnlyHeldHolds == Spec => DispatchOnlyHeld
<1>1. Spec => []IInv
    BY InitIInv, NextIInv, PTL DEF Spec
<1>2. IInv /\ [Next]_vars => [DispatchStep]_vars
    BY NextDispatch
<1>3. QED
    BY <1>1, <1>2, PTL DEF Spec, DispatchOnlyHeld, DispatchStep

=============================================================================
