----------------------------- MODULE FileTable ------------------------------
(***************************************************************************)
(* The file-descriptor layer of student-distrib/file.c: the file object    *)
(* array of the executing process and the open, read, write and close      *)
(* syscall handlers that index it.                                          *)
(*                                                                         *)
(* Every syscall runs to completion with IF clear (all IDT gates are       *)
(* interrupt gates), so each handler is one step.  The drivers behind the  *)
(* ops tables (filesystem, RTC, mouse, terminal) are outside this module:  *)
(* their open and close either succeed or fail, a read of a file or a      *)
(* directory may move the offset forward, and nothing else of theirs is    *)
(* visible here.  The filesystem is the constant Dentry, what              *)
(* read_dentry_by_name finds for a name.                                   *)
(*                                                                         *)
(* Two history variables record what the program was told: held[fd] is    *)
(* the name an open() that returned fd was given (or the terminal stream,  *)
(* or "free" once close() returned 0), and readSince[fd] whether a read()  *)
(* went through fd since then.                                              *)
(***************************************************************************)
EXTENDS Integers

CONSTANTS
    MAX_FILES,  \* the size of pcb->files
    Names,      \* strings a program passes to open()
    BadNames,   \* pointers is_user_readable_string rejects
    Dentry,     \* the filesystem: a name's dentry, or NoEntry
    NoEntry,
    Inodes,     \* inode indices of regular files
    MaxOffset   \* model bound on file->offset

FD_STDIN == 0
FD_STDOUT == 1

Fds == 0 .. MAX_FILES - 1

(* The dentry types init_file_obj knows; any other type is rejected. *)
KnownTypes == {"FTYPE_RTC", "FTYPE_DIR", "FTYPE_FILE", "FTYPE_MOUSE"}

OpsTables == {"fops_stdin", "fops_stdout", "fops_file", "fops_dir",
              "fops_rtc", "fops_mouse"}

ASSUME FileAssumption ==
    /\ MAX_FILES \in Nat /\ MAX_FILES > 2
    /\ Names \cap BadNames = {}
    /\ Names \cap {"stdin", "stdout", "free"} = {}
    /\ Inodes \subseteq Nat
    /\ MaxOffset \in Nat
    /\ \A n \in Names :
          Dentry[n] = NoEntry \/ Dentry[n] \in [type : STRING, inode : Inodes]

(* A file object: file_obj_t without the fields no handler here reads. *)
Slots == [valid : BOOLEAN, ops : OpsTables \cup {"NULL"},
          inode : {0} \cup Inodes, offset : 0 .. MaxOffset]

Calls == {"open", "read", "write", "close"}

VARIABLES
    files,      \* pcb->files of the executing process
    held,       \* history: what the program holds at each descriptor
    readSince,  \* history: a read() went through fd since it was opened
    last        \* history: the last syscall, its fd and whether a driver ran

vars == <<files, held, readSince, last>>

(* A file object with its valid flag, or its offset, replaced. *)
SetValid(f, v) == [valid |-> v, ops |-> f.ops, inode |-> f.inode, offset |-> f.offset]
SetOffset(f, o) == [valid |-> f.valid, ops |-> f.ops, inode |-> f.inode, offset |-> o]

StdSlot(ops) == [valid |-> TRUE, ops |-> ops, inode |-> 0, offset |-> 0]

(* file_init: stdin and stdout open, every other slot invalid; the fields *)
(* of the invalid slots are whatever the memory of the pcb held.  stdin   *)
(* and stdout have no inode or offset that their ops read.                 *)
Init ==
    /\ \E junk \in [2 .. MAX_FILES - 1 -> Slots] :
          files = [fd \in Fds |->
                     IF fd = FD_STDIN THEN StdSlot("fops_stdin")
                     ELSE IF fd = FD_STDOUT THEN StdSlot("fops_stdout")
                     ELSE SetValid(junk[fd], FALSE)]
    /\ held = [fd \in Fds |->
                 IF fd = FD_STDIN THEN "stdin"
                 ELSE IF fd = FD_STDOUT THEN "stdout" ELSE "free"]
    /\ readSince = [fd \in Fds |-> FALSE]
    /\ last = [call |-> "open", fd |-> -1, reached |-> FALSE]

-----------------------------------------------------------------------------
(* The ops table init_file_obj installs for a dentry type. *)
OpsFor(type) ==
    CASE type = "FTYPE_RTC"   -> "fops_rtc"
      [] type = "FTYPE_DIR"   -> "fops_dir"
      [] type = "FTYPE_FILE"  -> "fops_file"
      [] type = "FTYPE_MOUSE" -> "fops_mouse"

(* The first two assignments of init_file_obj. *)
ResetObj(f) == [valid |-> f.valid, ops |-> f.ops, inode |-> 0, offset |-> 0]

(* Mutant: the offset of the reused object is not reset. *)
InitFileObjKeepsOffset(f, d) ==
    [valid  |-> TRUE,
     ops    |-> OpsFor(d.type),
     inode  |-> IF d.type = "FTYPE_FILE" THEN d.inode ELSE 0,
     offset |-> f.offset]

(* init_file_obj for a dentry of a known type: inode and offset reset, the *)
(* inode taken only for a regular file, and the object marked valid.       *)
InitFileObj(f, d) ==
    [valid  |-> TRUE,
     ops    |-> OpsFor(d.type),
     inode  |-> IF d.type = "FTYPE_FILE" THEN d.inode ELSE 0,
     offset |-> 0]

(* The slots the loop of file_open may take: fd 0 and 1 are skipped. *)
FreeSlots == {i \in 2 .. MAX_FILES - 1 : ~files[i].valid}

(* The first slot of the loop that is free. *)
FirstFree == CHOOSE i \in FreeSlots : \A j \in FreeSlots : i <= j

(* Mutant: the valid test of get_executing_file_obj is missing. *)
IsOpenFdInBounds(fd) == fd >= 0 /\ fd < MAX_FILES

(* get_executing_file_obj(fd) # NULL: in bounds and open. *)
IsOpenFd(fd) == fd >= 0 /\ fd < MAX_FILES /\ files[fd].valid

Ret(call, fd, reached) == last' = [call |-> call, fd |-> fd, reached |-> reached]

-----------------------------------------------------------------------------
(* Mutant: the slot stays valid when the driver's open fails. *)
FileOpenKeepsValid(n) ==
    \/ /\ n \in BadNames \/ FreeSlots = {}
       /\ Ret("open", -1, FALSE)
       /\ UNCHANGED <<files, held, readSince>>
    \/ /\ n \notin BadNames /\ FreeSlots # {}
       /\ LET i == FirstFree
              d == Dentry[n]
          IN  \/ /\ d = NoEntry
                 /\ Ret("open", -1, FALSE)
                 /\ UNCHANGED <<files, held, readSince>>
              \/ /\ d # NoEntry /\ d.type \notin KnownTypes
                 /\ files' = [files EXCEPT ![i] = ResetObj(@)]
                 /\ Ret("open", -1, FALSE)
                 /\ UNCHANGED <<held, readSince>>
              \/ /\ d # NoEntry /\ d.type \in KnownTypes
                 /\ \E ok \in BOOLEAN :
                       /\ files' = [files EXCEPT ![i] = InitFileObj(@, d)]
                       /\ Ret("open", IF ok THEN i ELSE -1, TRUE)
                       /\ held' = IF ok THEN [held EXCEPT ![i] = n] ELSE held
                       /\ readSince' = IF ok THEN [readSince EXCEPT ![i] = FALSE]
                                       ELSE readSince

(* Mutant: init_file_obj marks the object valid before its type switch,  *)
(* so an unknown type leaves a valid object with the old ops pointer.     *)
FileOpenValidUnknown(n) ==
    \/ /\ n \in BadNames \/ FreeSlots = {}
       /\ Ret("open", -1, FALSE)
       /\ UNCHANGED <<files, held, readSince>>
    \/ /\ n \notin BadNames /\ FreeSlots # {}
       /\ LET i == FirstFree
              d == Dentry[n]
          IN  \/ /\ d = NoEntry
                 /\ Ret("open", -1, FALSE)
                 /\ UNCHANGED <<files, held, readSince>>
              \/ /\ d # NoEntry /\ d.type \notin KnownTypes
                 /\ files' = [files EXCEPT ![i] = SetValid(ResetObj(@), TRUE)]
                 /\ Ret("open", -1, FALSE)
                 /\ UNCHANGED <<held, readSince>>
              \/ /\ d # NoEntry /\ d.type \in KnownTypes
                 /\ \E ok \in BOOLEAN :
                       /\ files' = [files EXCEPT ![i] = SetValid(InitFileObj(@, d), ok)]
                       /\ Ret("open", IF ok THEN i ELSE -1, TRUE)
                       /\ held' = IF ok THEN [held EXCEPT ![i] = n] ELSE held
                       /\ readSince' = IF ok THEN [readSince EXCEPT ![i] = FALSE]
                                       ELSE readSince

(* open(): the string check, the scan for a free slot, read_dentry_by_name, *)
(* init_file_obj, then the driver's open, which on failure invalidates the  *)
(* slot again.  ok is the driver's verdict.                                 *)
FileOpen(n) ==
    \/ /\ n \in BadNames \/ FreeSlots = {}
       /\ Ret("open", -1, FALSE)
       /\ UNCHANGED <<files, held, readSince>>
    \/ /\ n \notin BadNames /\ FreeSlots # {}
       /\ LET i == FirstFree
              d == Dentry[n]
          IN  \/ /\ d = NoEntry
                 /\ Ret("open", -1, FALSE)
                 /\ UNCHANGED <<files, held, readSince>>
              \/ /\ d # NoEntry /\ d.type \notin KnownTypes
                 /\ files' = [files EXCEPT ![i] = ResetObj(@)]
                 /\ Ret("open", -1, FALSE)
                 /\ UNCHANGED <<held, readSince>>
              \/ /\ d # NoEntry /\ d.type \in KnownTypes
                 /\ \E ok \in BOOLEAN :
                       /\ files' = [files EXCEPT ![i] = SetValid(InitFileObj(@, d), ok)]
                       /\ Ret("open", IF ok THEN i ELSE -1, TRUE)
                       /\ held' = IF ok THEN [held EXCEPT ![i] = n] ELSE held
                       /\ readSince' = IF ok THEN [readSince EXCEPT ![i] = FALSE]
                                       ELSE readSince

(* read(): the fd check, then the driver's read; the filesystem's reads   *)
(* of a file or a directory move the offset forward.                       *)
FileRead(fd) ==
    \/ /\ ~IsOpenFd(fd)
       /\ Ret("read", fd, FALSE)
       /\ UNCHANGED <<files, held, readSince>>
    \/ /\ IsOpenFd(fd)
       /\ IF files[fd].ops \in {"fops_file", "fops_dir"}
          THEN \E o \in files[fd].offset .. MaxOffset :
                  files' = [files EXCEPT ![fd] = SetOffset(@, o)]
          ELSE UNCHANGED files
       /\ readSince' = [readSince EXCEPT ![fd] = TRUE]
       /\ Ret("read", fd, TRUE)
       /\ UNCHANGED held

(* write(): the fd check, then the driver's write. *)
FileWrite(fd) ==
    /\ Ret("write", fd, IsOpenFd(fd))
    /\ UNCHANGED <<files, held, readSince>>

(* close(): the fd check, the driver's close, and the slot freed only if  *)
(* the driver's close succeeded.                                           *)
FileClose(fd) ==
    \/ /\ ~IsOpenFd(fd)
       /\ Ret("close", fd, FALSE)
       /\ UNCHANGED <<files, held, readSince>>
    \/ /\ IsOpenFd(fd)
       /\ \E ok \in BOOLEAN :
             /\ files' = IF ok THEN [files EXCEPT ![fd] = SetValid(@, FALSE)] ELSE files
             /\ held' = IF ok THEN [held EXCEPT ![fd] = "free"] ELSE held
       /\ Ret("close", fd, TRUE)
       /\ UNCHANGED readSince

(* The descriptors a program passes: every slot and one past each end. *)
FdArgs == -1 .. MAX_FILES

Next ==
    \/ \E n \in Names \cup BadNames : FileOpen(n)
    \/ \E fd \in FdArgs : FileRead(fd) \/ FileWrite(fd) \/ FileClose(fd)

Spec == Init /\ [][Next]_vars

-----------------------------------------------------------------------------
(* Every variable has the type of its declaration, and an open file      *)
(* object has an ops table for the handlers to call through.             *)
TypeOK ==
    /\ files \in [Fds -> Slots]
    /\ \A fd \in Fds : files[fd].valid => files[fd].ops \in OpsTables
    /\ held \in [Fds -> Names \cup {"stdin", "stdout", "free"}]
    /\ readSince \in [Fds -> BOOLEAN]
    /\ last \in [call : Calls, fd : FdArgs, reached : BOOLEAN]

(* The table agrees with what the program was told: a slot is valid      *)
(* exactly when an open() returned it (or it is a terminal stream) and no *)
(* close() of it has returned 0.  A failed driver open that left the slot *)
(* valid would leak it; a close that freed a slot whose driver refused    *)
(* would leave the program holding a dead descriptor.                     *)
HeldIsValid == \A fd \in Fds : files[fd].valid <=> held[fd] # "free"

(* A held descriptor names what it was opened for: the ops table and      *)
(* inode of its dentry, and an offset that only a read through it since    *)
(* the open can have moved, however the slot was used before.  fd 0 and 1 *)
(* are only ever the terminal streams.                                     *)
SlotMatchesOpen ==
    \A fd \in Fds :
        /\ held[fd] \in Names =>
              LET d == Dentry[held[fd]]
              IN  /\ files[fd].ops = OpsFor(d.type)
                  /\ files[fd].inode = (IF d.type = "FTYPE_FILE" THEN d.inode ELSE 0)
                  /\ (files[fd].offset # 0 => readSince[fd])
        /\ held[fd] = "stdin" => fd = FD_STDIN /\ files[fd].ops = "fops_stdin"
        /\ held[fd] = "stdout" => fd = FD_STDOUT /\ files[fd].ops = "fops_stdout"

(* No driver is called through a descriptor the program does not hold:   *)
(* a read, write or close that reached an ops table named a held fd.     *)
DispatchOnlyHeld ==
    [][last'.call # "open" /\ last'.reached =>
         last'.fd \in Fds /\ held[last'.fd] # "free"]_vars

=============================================================================
