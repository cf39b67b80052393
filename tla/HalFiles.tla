------------------------------ MODULE HalFiles ------------------------------
(***************************************************************************)
(* The file descriptors of the HAL: one table for devices and file         *)
(* systems, the exclusive lock on a device, and the redirection that puts  *)
(* the standard streams on their device.  Only the program touches the     *)
(* table, so a call is one step.                                           *)
(*                                                                         *)
(* The calls that only pass through a descriptor to its device (read,      *)
(* write, lseek, fstat, isatty, fcntl) leave the table as it is.           *)
(***************************************************************************)
EXTENDS Integers, FiniteSets

CONSTANTS
  ALT_MAX_FD,     (* descriptors in the table                               *)
  Device,         (* the devices a driver may register                      *)
  FileSystem,     (* the file systems the program may register              *)
  NullDevice,     (* /dev/null                                              *)
  StdDevice,      (* ALT_STDIN, ALT_STDOUT and ALT_STDERR                   *)
  NoDev           (* the null pointer of a free descriptor                  *)

ASSUME FilesAssumption ==
  /\ ALT_MAX_FD \in Nat /\ ALT_MAX_FD > 3
  /\ NullDevice \in Device /\ StdDevice \in Device
  /\ Device \cap FileSystem = {}
  /\ NoDev \notin Device \cup FileSystem

Fd == 0 .. ALT_MAX_FD - 1
Standard == 0 .. 2

VARIABLES
  alt_dev_list,   (* the devices registered                                 *)
  alt_fs_list,    (* the file systems registered                            *)
  alt_fd_list,    (* descriptor |-> its device, ALT_FD_EXCL, ALT_FD_DEV     *)
  alt_max_fd,     (* the highest descriptor ever given, -1 at first         *)
  held            (* history: the descriptors open() gave the program, and  *)
                  (* it has not closed                                      *)

fileVars == <<alt_dev_list, alt_fs_list, alt_fd_list, alt_max_fd, held>>

Entry(dev, excl, isdev) == [dev |-> dev, excl |-> excl, isdev |-> isdev]
FreeEntry == Entry(NoDev, FALSE, FALSE)

FilesInit ==
  /\ alt_dev_list = {NullDevice} /\ alt_fs_list = {}
  /\ alt_fd_list = [i \in Fd |-> IF i \in Standard
                                   THEN Entry(NullDevice, FALSE, FALSE)
                                   ELSE FreeEntry]
  /\ alt_max_fd = -1
  /\ held = {}

Free(i) == alt_fd_list[i].dev = NoDev

(* alt_dev_reg and alt_fs_reg. *)
RegisterDevice(dev) ==
  /\ alt_dev_list' = alt_dev_list \cup {dev}
  /\ UNCHANGED <<alt_fs_list, alt_fd_list, alt_max_fd, held>>

RegisterFileSystem ==
  /\ \E fs \in FileSystem \ alt_fs_list : alt_fs_list' = alt_fs_list \cup {fs}
  /\ UNCHANGED <<alt_dev_list, alt_fd_list, alt_max_fd, held>>

-----------------------------------------------------------------------------
(* The descriptor alt_get_fd picks, and alt_max_fd after it. *)
First(i) == Free(i) /\ \A j \in 0 .. i - 1 : ~Free(j)
RaisedTo(i) == IF i > alt_max_fd THEN i ELSE alt_max_fd

(* Mutant: the search stops one short of the highest descriptor. *)
LockedBy_Short(dev, i) ==
  {j \in Fd \ {i} : /\ j < RaisedTo(i)
                    /\ alt_fd_list[j].dev = dev /\ alt_fd_list[j].excl}

(* The descriptors by which alt_file_locked refuses device dev. *)
LockedBy(dev, i) ==
  {j \in Fd \ {i} : /\ j <= RaisedTo(i)
                    /\ alt_fd_list[j].dev = dev /\ alt_fd_list[j].excl}

(* A descriptor opened for good; one a lock refuses, or the device's own   *)
(* open, which is given back.  alt_max_fd is not lowered.                  *)
Granted(dev, i) ==
  /\ dev \in alt_dev_list => LockedBy(dev, i) = {}
  /\ alt_fd_list' = [alt_fd_list EXCEPT ![i] =
                       Entry(dev, FALSE, dev \in alt_dev_list)]

(* Mutant: the descriptor of a failed open is kept. *)
Refused_Kept(dev, i) ==
  alt_fd_list' = [alt_fd_list EXCEPT ![i] =
                    Entry(dev, FALSE, dev \in alt_dev_list)]

Refused(dev, i) ==
  alt_fd_list' = [alt_fd_list EXCEPT ![i] = FreeEntry]

(* open(): with no such device or no free descriptor nothing changes. *)
Open ==
  /\ \E dev \in alt_dev_list \cup alt_fs_list, i \in Fd :
       /\ First(i)
       /\ alt_max_fd' = RaisedTo(i)
       /\ \/ Granted(dev, i) /\ held' = held \cup {i}
          \/ Refused(dev, i) /\ UNCHANGED held
  /\ UNCHANGED <<alt_dev_list, alt_fs_list>>

(* close(), whatever the device's own close answers. *)
Close ==
  /\ \E i \in held :
       /\ alt_fd_list' = [alt_fd_list EXCEPT ![i] = FreeEntry]
       /\ held' = held \ {i}
  /\ UNCHANGED <<alt_dev_list, alt_fs_list, alt_max_fd>>

(* ioctl(TIOCEXCL): the search leaves out the highest descriptor.          *)
Lock ==
  /\ \E i \in held \cup Standard :
       /\ alt_fd_list[i].isdev
       /\ \A j \in Fd : j < alt_max_fd /\ j # i =>
            alt_fd_list[j].dev # alt_fd_list[i].dev
       /\ alt_fd_list' = [alt_fd_list EXCEPT ![i].excl = TRUE]
  /\ UNCHANGED <<alt_dev_list, alt_fs_list, alt_max_fd, held>>

(* ioctl(TIOCNXCL). *)
Unlock ==
  /\ \E i \in held \cup Standard :
       /\ alt_fd_list[i].isdev
       /\ alt_fd_list' = [alt_fd_list EXCEPT ![i].excl = FALSE]
  /\ UNCHANGED <<alt_dev_list, alt_fs_list, alt_max_fd, held>>

FileCall == RegisterFileSystem \/ Open \/ Close \/ Lock \/ Unlock

(* alt_open_fd: a standard descriptor becomes a copy of one opened and     *)
(* given back.  The device of the streams has no open function to fail.    *)
Redirect(standard) ==
  /\ StdDevice \in alt_dev_list
  /\ \E i \in Fd :
       /\ First(i)
       /\ alt_max_fd' = RaisedTo(i)
       /\ alt_fd_list' = [alt_fd_list EXCEPT
                            ![standard] = Entry(StdDevice, FALSE, TRUE),
                            ![i] = FreeEntry]
  /\ UNCHANGED <<alt_dev_list, alt_fs_list, held>>

-----------------------------------------------------------------------------
FilesTypeOK ==
  /\ alt_dev_list \subseteq Device /\ alt_fs_list \subseteq FileSystem
  /\ alt_fd_list \in [Fd -> [dev : Device \cup FileSystem \cup {NoDev},
                             excl : BOOLEAN, isdev : BOOLEAN]]
  /\ alt_max_fd \in -1 .. ALT_MAX_FD - 1
  /\ held \subseteq Fd

(* No descriptor is lost and none is given twice: whatever opens fail,     *)
(* those in use are the standard ones and those the program holds          *)
(* (alt_open.c:161-166, alt_get_fd.c:77-89, alt_close.c:84-88).            *)
Conserved ==
  /\ {i \in Fd \ Standard : ~Free(i)} = held
  /\ \A i \in Standard : ~Free(i)

(* While a descriptor holds the lock on its device, no open of that device *)
(* succeeds (alt_fd_lock.c:43), in whatever order the descriptors were     *)
(* given and given back.                                                   *)
LockedOut ==
  [][\A i \in held' \ held : \A j \in Fd \ {i} :
       alt_fd_list'[i].isdev /\ alt_fd_list[j].excl =>
         alt_fd_list[j].dev # alt_fd_list'[i].dev]_fileVars
=============================================================================
