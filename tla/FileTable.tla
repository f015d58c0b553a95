------------------------------ MODULE FileTable -------------------------------
(***************************************************************************)
(* The file descriptors of the HAL (alt_open.c, alt_close.c, alt_get_fd.c, *)
(* alt_release_fd.c, alt_fd_lock.c, alt_fd_unlock.c, alt_ioctl.c,          *)
(* alt_fcntl.c, alt_io_redirect.c): a pool of ALT_MAX_FD slots, its high   *)
(* water mark alt_max_fd, and the lock by which one descriptor keeps a     *)
(* device to itself.                                                       *)
(*                                                                         *)
(* One thread opens and closes files in this system, so each call is one   *)
(* step.  A file is named by the device or filesystem that serves it: open *)
(* of a name nobody serves changes nothing.  Of the flags the model keeps  *)
(* the two bits of the HAL and O_NONBLOCK; the access mode and the private *)
(* pointer only go to the driver.  Descriptors that are not open are never *)
(* passed in: the code follows their null pointer.                         *)
(***************************************************************************)
EXTENDS Integers, FiniteSets

CONSTANTS
    ALT_MAX_FD,    \* slots of the pool (32)
    Devices,       \* alt_dev_list
    Filesystems,   \* alt_fs_list, empty in this system
    Null,          \* alt_dev_null, of Devices
    Refusing,      \* those whose driver may refuse an open(), none in this system
    Stdio,         \* ALT_STDIN, ALT_STDOUT and ALT_STDERR: /dev/jtag_uart_0
    NoDev          \* the null pointer

ASSUME FileAssumption ==
    /\ ALT_MAX_FD \in Nat /\ ALT_MAX_FD >= 4
    /\ Null \in Devices /\ Stdio \in Devices
    /\ Devices \cap Filesystems = {}
    /\ Refusing \subseteq Devices \cup Filesystems
    /\ NoDev \notin Devices \cup Filesystems

VARIABLES
    alt_fd_list,   \* per slot: the device and the flags
    alt_max_fd,    \* the highest slot alt_get_fd has ever handed out
    redirected,    \* how many of stdout, stdin and stderr alt_io_redirect has done
    held           \* the descriptors open() has returned and close() not yet got

fileVars == <<alt_fd_list, alt_max_fd, redirected, held>>

Fds  == 0..(ALT_MAX_FD - 1)
Std  == 0..2
Bits == {"ALT_FD_EXCL", "ALT_FD_DEV", "O_NONBLOCK"}
ALT_FD_FLAGS_MASK    == {"ALT_FD_EXCL", "ALT_FD_DEV"}
ALT_FCNTL_FLAGS_MASK == {"O_NONBLOCK"}

Served == Devices \cup Filesystems
Free   == [dev |-> NoDev, flags |-> {}]
Locks(fd) == "ALT_FD_EXCL" \in alt_fd_list[fd].flags

FileInit ==
    /\ alt_fd_list = [fd \in Fds |-> IF fd \in Std THEN [dev |-> Null, flags |-> {}] ELSE Free]
    /\ alt_max_fd = -1
    /\ redirected = 0
    /\ held = {}

-----------------------------------------------------------------------------
\* alt_get_fd: the first free slot, if there is one.
HasFree    == \E fd \in Fds : alt_fd_list[fd].dev = NoDev
alt_get_fd ==
    CHOOSE fd \in Fds : /\ alt_fd_list[fd].dev = NoDev
                        /\ \A i \in Fds : alt_fd_list[i].dev = NoDev => fd <= i
NextMax    == IF alt_get_fd > alt_max_fd THEN alt_get_fd ELSE alt_max_fd

\* The three standard descriptors are never freed.
alt_release_fd(list, fd) == IF fd > 2 THEN [list EXCEPT ![fd] = Free] ELSE list

OpenFlags(dev, flags) ==
    (flags \ ALT_FD_FLAGS_MASK) \cup (IF dev \in Devices THEN {"ALT_FD_DEV"} ELSE {})

\* The pool while open() is under way: the slot taken, its flags set.
Claimed(dev, flags) ==
    [alt_fd_list EXCEPT ![alt_get_fd] = [dev |-> dev, flags |-> OpenFlags(dev, flags)]]

\* Mutant: the search stops before the highest slot, as in alt_fd_lock.
alt_file_locked_BelowMax(dev) ==
    \E i \in 0..(NextMax - 1) :
        i # alt_get_fd /\ alt_fd_list[i].dev = dev /\ Locks(i)

\* A descriptor other than the new one has locked the device.
alt_file_locked(dev) ==
    \E i \in 0..NextMax : i # alt_get_fd /\ alt_fd_list[i].dev = dev /\ Locks(i)

Admitted(dev) == dev \in Filesystems \/ ~alt_file_locked(dev)

\* Mutant: a refusal by the driver keeps the slot.
Refused_KeepsSlot(dev, flags) == Claimed(dev, flags)

\* open() fails, after the slot was taken: it is given back.
Refused(dev, flags) == alt_release_fd(Claimed(dev, flags), alt_get_fd)

-----------------------------------------------------------------------------
(* Before main(): alt_io_redirect opens each standard stream anew, copies  *)
(* the new descriptor over the old one and frees the new slot.             *)

StreamNo == <<1, 0, 2>>[redirected + 1]     \* stdout, stdin, stderr

Redirect ==
    /\ redirected < 3
    /\ redirected' = redirected + 1
    /\ HasFree
    /\ alt_max_fd' = NextMax
    /\ \/ /\ Admitted(Stdio)
          /\ alt_fd_list' =
                alt_release_fd([Claimed(Stdio, {}) EXCEPT ![StreamNo] =
                                   Claimed(Stdio, {})[alt_get_fd]], alt_get_fd)
       \/ /\ Stdio \in Refusing
          /\ alt_fd_list' = Refused(Stdio, {})
    /\ UNCHANGED held

-----------------------------------------------------------------------------
(* The calls of the program.                                               *)

Running == redirected = 3 /\ UNCHANGED redirected
Usable  == held \cup Std

\* The flags a program passes.  The HAL masks its own bits out of them, so
\* that all bits and none give every outcome.
Passed == {{}, Bits}

\* open() succeeds.
Open(dev, flags) ==
    /\ Running /\ HasFree /\ Admitted(dev)
    /\ alt_fd_list' = Claimed(dev, flags)
    /\ alt_max_fd' = NextMax
    /\ held' = held \cup {alt_get_fd}

\* open() fails: the device is locked, or its driver refuses.  With no free
\* slot nothing changes at all.
OpenFails(dev, flags) ==
    /\ Running /\ HasFree
    /\ dev \in Refusing \/ ~Admitted(dev)
    /\ alt_fd_list' = Refused(dev, flags)
    /\ alt_max_fd' = NextMax
    /\ UNCHANGED held

\* close() frees the slot even if the driver's close() fails.
Close(fd) ==
    /\ Running /\ fd \in Usable
    /\ alt_fd_list' = alt_release_fd(alt_fd_list, fd)
    /\ held' = held \ {fd}
    /\ UNCHANGED alt_max_fd

\* Mutant: a lock on the slot before is not seen.
LockGranted_FromNext(fd) ==
    \A i \in (fd + 1)..(alt_max_fd - 1) : alt_fd_list[i].dev # alt_fd_list[fd].dev

\* alt_fd_lock: no other descriptor has the device.  The search leaves out
\* the highest slot ever handed out.
LockGranted(fd) ==
    \A i \in 0..(alt_max_fd - 1) : i # fd => alt_fd_list[i].dev # alt_fd_list[fd].dev

IsDevice(fd) == "ALT_FD_DEV" \in alt_fd_list[fd].flags

\* ioctl(fd, TIOCEXCL), for devices only.
Lock(fd) ==
    /\ Running /\ fd \in Usable /\ IsDevice(fd)
    /\ LockGranted(fd)
    /\ alt_fd_list' = [alt_fd_list EXCEPT ![fd].flags = @ \cup {"ALT_FD_EXCL"}]
    /\ UNCHANGED <<alt_max_fd, held>>

\* ioctl(fd, TIOCNXCL), for devices only.
Unlock(fd) ==
    /\ Running /\ fd \in Usable /\ IsDevice(fd)
    /\ alt_fd_list' = [alt_fd_list EXCEPT ![fd].flags = @ \ {"ALT_FD_EXCL"}]
    /\ UNCHANGED <<alt_max_fd, held>>

\* fcntl(fd, F_SETFL, flags).
SetFlags(fd, flags) ==
    /\ Running /\ fd \in Usable
    /\ alt_fd_list' = [alt_fd_list EXCEPT ![fd].flags =
                          (@ \ ALT_FCNTL_FLAGS_MASK) \cup (flags \cap ALT_FCNTL_FLAGS_MASK)]
    /\ UNCHANGED <<alt_max_fd, held>>

FileNext ==
    \/ Redirect
    \/ \E dev \in Served, flags \in Passed : Open(dev, flags) \/ OpenFails(dev, flags)
    \/ \E fd \in Usable : Close(fd) \/ Lock(fd) \/ Unlock(fd)
    \/ \E fd \in Usable, flags \in Passed : SetFlags(fd, flags)

FileSpec == FileInit /\ [][FileNext]_fileVars

-----------------------------------------------------------------------------
FileTypeOK ==
    /\ alt_fd_list \in [Fds -> [dev : Served \cup {NoDev}, flags : SUBSET Bits]]
    /\ alt_max_fd \in -1..(ALT_MAX_FD - 1)
    /\ redirected \in 0..3
    /\ held \subseteq Fds \ Std

\* The slots in use are those somebody will close: no refused or locked-out
\* open(), failed close() or redirected stream loses one, and none is freed
\* that somebody still has.
NoLeak == held = {fd \in Fds \ Std : alt_fd_list[fd].dev # NoDev}

\* "Further calls to open() for this device will fail until the lock is
\* released" (alt_fd_lock.c): no descriptor comes to a device that another
\* one has locked, whatever slots were freed and handed out in between.
LockKeepsOthersOut ==
    [][\A fd \in Fds :
          alt_fd_list'[fd].dev \notin {NoDev, alt_fd_list[fd].dev} =>
             \A i \in Fds \ {fd} :
                alt_fd_list[i].dev = alt_fd_list'[fd].dev => ~Locks(i)]_fileVars

\* A device has at most one owner, although alt_fd_lock() overlooks the
\* highest slot.
OneLockPerDevice ==
    \A fd, i \in Fds :
        Locks(fd) /\ Locks(i) /\ alt_fd_list[fd].dev = alt_fd_list[i].dev => fd = i

\* "If there are no other open file descriptors which reference the same
\* device, then alt_fd_lock() will grant the lock" (alt_fd_lock.c): a locked
\* device has no second descriptor.
LockedMeansAlone ==
    \A fd, i \in Fds :
        Locks(fd) /\ alt_fd_list[fd].dev = alt_fd_list[i].dev => fd = i
==============================================================================
