---------------------------- MODULE MCFileTable -----------------------------
(***************************************************************************)
(* A small filesystem and descriptor table for TLC.                        *)
(***************************************************************************)
EXTENDS FileTable

(* Two regular files, a directory, the RTC, the mouse, a dentry of a type *)
(* init_file_obj does not know, and a name with no dentry.                 *)
MCNames == {"f1", "f2", "dir", "rtc", "mouse", "odd", "none"}

MCDentry ==
    [n \in MCNames |->
        CASE n = "f1"    -> [type |-> "FTYPE_FILE", inode |-> 1]
          [] n = "f2"    -> [type |-> "FTYPE_FILE", inode |-> 2]
          [] n = "dir"   -> [type |-> "FTYPE_DIR", inode |-> 0]
          [] n = "rtc"   -> [type |-> "FTYPE_RTC", inode |-> 0]
          [] n = "mouse" -> [type |-> "FTYPE_MOUSE", inode |-> 0]
          [] n = "odd"   -> [type |-> "FTYPE_OTHER", inode |-> 0]
          [] OTHER       -> NoEntry]

=============================================================================
