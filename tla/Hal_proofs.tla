------------------------------- MODULE Hal_proofs -----------------------------
(***************************************************************************)
(* Three services of the HAL: the file descriptors are neither lost nor    *)
(* shared, and a lock keeps the others out, for pools of every size and    *)
(* all sets of devices; an interrupt finds its handler and disturbs        *)
(* nobody, for any set of lines; the alarms are called in time, for any    *)
(* number of them and any width of the tick counter.                       *)
(***************************************************************************)
EXTENDS FileTable, Interrupts, SystemClock, TLAPS, WellFoundedInduction,
        SequenceTheorems

-----------------------------------------------------------------------------
(* alt_get_fd.c *)

\* Every set of slots that is not empty has a first one.
LEMMA FirstSlot ==
    ASSUME NEW S \in SUBSET Fds, S # {}
    PROVE  \E fd \in S : \A i \in S : fd <= i
<1> DEFINE R == OpToRel(<, Nat)
<1>1. PICK fd \in S : \A i \in S : <<i, fd>> \notin R
  <2>1. S \subseteq Nat
    BY DEF Fds
  <2> QED  BY <2>1, NatLessThanWellFounded, WFMin
<1>2. \A i, j \in Nat : i < j => <<i, j>> \in R
  BY DEF OpToRel
<1> HIDE DEF R
<1>3. fd \in Nat /\ \A i \in S : i \in Nat
  BY FileAssumption DEF Fds
<1>4. \A i \in S : ~(i < fd)
  BY <1>1, <1>2, <1>3
<1> QED  BY <1>3, <1>4

LEMMA GetFd ==
    ASSUME HasFree
    PROVE  alt_get_fd \in Fds /\ alt_fd_list[alt_get_fd].dev = NoDev
<1> DEFINE S == {fd \in Fds : alt_fd_list[fd].dev = NoDev}
<1>1. \E fd \in S : \A i \in S : fd <= i
  BY FirstSlot DEF HasFree
<1>2. \E fd \in Fds : /\ alt_fd_list[fd].dev = NoDev
                      /\ \A i \in Fds : alt_fd_list[i].dev = NoDev => fd <= i
  BY <1>1
<1> QED  BY <1>2 DEF alt_get_fd

-----------------------------------------------------------------------------
(* The invariant.                                                          *)

Owner(fd) == alt_fd_list[fd].dev

\* The standard descriptors always lead somewhere.
StdInUse == \A fd \in Std : Owner(fd) # NoDev

\* The high water mark covers what can be locked, and only devices can be.
MaxCovers ==
    \A fd \in Fds :
        /\ Locks(fd) => IsDevice(fd)
        /\ IsDevice(fd) => Owner(fd) \in Devices /\ fd <= alt_max_fd
        /\ fd \notin Std /\ Owner(fd) # NoDev => fd <= alt_max_fd

\* A descriptor that shares a locked device lies above the one that locks
\* it: it is the one the search of alt_fd_lock() left out.
SharersAbove ==
    \A fd, i \in Fds : Locks(fd) /\ Owner(i) = Owner(fd) /\ i # fd => fd < i

FileInv == FileTypeOK /\ NoLeak /\ StdInUse /\ MaxCovers /\ SharersAbove

LEMMA FileInvInit == FileInit => FileInv
<1> SUFFICES ASSUME FileInit PROVE FileInv
  OBVIOUS
<1> USE FileAssumption
<1>1. Std \subseteq Fds
  BY DEF Std, Fds
<1>2. \A fd \in Fds : /\ alt_fd_list[fd].flags = {}
                      /\ Owner(fd) = IF fd \in Std THEN Null ELSE NoDev
  BY DEF FileInit, Owner, Free
<1>3. FileTypeOK
  BY DEF FileInit, FileTypeOK, Free, Served, Fds
<1>4. NoLeak
  BY <1>2 DEF FileInit, NoLeak, Owner
<1> QED
  BY <1>1, <1>2, <1>3, <1>4 DEF FileInv, StdInUse, MaxCovers, SharersAbove, Locks, IsDevice

\* The slot open() takes lies above the standard ones.
LEMMA NewSlot ==
    ASSUME FileInv, HasFree
    PROVE  /\ alt_get_fd \in Fds \ Std /\ alt_get_fd > 2
           /\ Owner(alt_get_fd) = NoDev
           /\ alt_get_fd \notin held
           /\ NextMax \in -1..(ALT_MAX_FD - 1)
           /\ alt_get_fd <= NextMax /\ alt_max_fd <= NextMax
<1>1. alt_get_fd \in Fds /\ Owner(alt_get_fd) = NoDev
  BY GetFd DEF Owner
<1>2. alt_get_fd \notin Std /\ alt_get_fd \notin held
  BY <1>1 DEF FileInv, StdInUse, NoLeak, Owner
<1> HIDE DEF alt_get_fd
<1> QED  BY <1>1, <1>2, FileAssumption DEF FileInv, FileTypeOK, NextMax, Fds, Std

\* alt_file_locked sees every lock, the one on the highest slot too.
LEMMA AdmittedMeansUnlocked ==
    ASSUME FileInv, HasFree, NEW dev \in Served, Admitted(dev),
           NEW i \in Fds, Owner(i) = dev
    PROVE  ~Locks(i)
<1> SUFFICES ASSUME Locks(i) PROVE FALSE
  OBVIOUS
<1>1. dev \in Devices /\ i <= alt_max_fd
  BY DEF FileInv, MaxCovers
<1>2. i # alt_get_fd /\ alt_max_fd <= NextMax /\ NextMax \in Int /\ alt_max_fd \in Int
  BY NewSlot, FileAssumption DEF Served, FileInv, FileTypeOK
<1>3. i \in 0..NextMax
  BY <1>1, <1>2 DEF Fds
<1>4. alt_file_locked(dev)
  BY <1>2, <1>3 DEF alt_file_locked, Owner
<1> QED  BY <1>1, <1>4, FileAssumption DEF Admitted

-----------------------------------------------------------------------------
(* Each call, by what it makes of the slots.                               *)

\* One slot changes, and neither device, lock nor kind of the others.
LEMMA OtherSlots ==
    ASSUME FileTypeOK, NEW fd \in Fds, NEW r,
           alt_fd_list' = [alt_fd_list EXCEPT ![fd] = r]
    PROVE  /\ alt_fd_list'[fd] = r
           /\ \A i \in Fds \ {fd} : alt_fd_list'[i] = alt_fd_list[i]
  BY DEF FileTypeOK

\* The slot a failed open() took is free again.
LEMMA RefusedChangesNothing ==
    ASSUME FileInv, HasFree, NEW dev, NEW flags
    PROVE  /\ Refused(dev, flags) = [alt_fd_list EXCEPT ![alt_get_fd] = Free]
           /\ \A i \in Fds : Refused(dev, flags)[i].dev = Owner(i)
<1>1. alt_get_fd > 2 /\ alt_get_fd \in Fds /\ Owner(alt_get_fd) = NoDev
  BY NewSlot
<1> HIDE DEF alt_get_fd
<1>2. Refused(dev, flags) = [alt_fd_list EXCEPT ![alt_get_fd] = Free]
  BY <1>1 DEF Refused, alt_release_fd, Claimed, FileInv, FileTypeOK
<1> QED  BY <1>1, <1>2 DEF Owner, Free, FileInv, FileTypeOK

\* A failed open() keeps the invariant: only the high water mark may rise.
LEMMA RefusedInv ==
    ASSUME FileInv, HasFree, NEW dev, NEW flags,
           alt_fd_list' = Refused(dev, flags), alt_max_fd' = NextMax,
           held' = held, redirected' \in 0..3
    PROVE  FileInv'
<1>1. /\ alt_get_fd \in Fds \ Std /\ Owner(alt_get_fd) = NoDev
      /\ NextMax \in -1..(ALT_MAX_FD - 1) /\ alt_max_fd <= NextMax
  BY NewSlot
<1> HIDE DEF alt_get_fd
<1>2. alt_fd_list' = [alt_fd_list EXCEPT ![alt_get_fd] = Free]
  BY RefusedChangesNothing
<1>3. /\ alt_fd_list'[alt_get_fd] = Free
      /\ \A i \in Fds \ {alt_get_fd} : alt_fd_list'[i] = alt_fd_list[i]
  BY <1>1, <1>2 DEF FileInv, FileTypeOK
<1>4. FileTypeOK'
  BY <1>1, <1>2 DEF FileInv, FileTypeOK, Free
<1>5. NoLeak'
  BY <1>1, <1>3 DEF FileInv, NoLeak, Owner, Free
<1>6. StdInUse'
  BY <1>1, <1>3, FileAssumption DEF FileInv, StdInUse, Owner, Std, Fds
<1>7. MaxCovers'
  BY <1>1, <1>3, FileAssumption
     DEF FileInv, FileTypeOK, MaxCovers, Owner, Locks, IsDevice, Free, Fds
<1>8. SharersAbove'
  BY <1>1, <1>3, FileAssumption
     DEF FileInv, SharersAbove, MaxCovers, Owner, Locks, IsDevice, Free
<1> QED  BY <1>4, <1>5, <1>6, <1>7, <1>8 DEF FileInv

LEMMA RedirectInv == ASSUME FileInv, Redirect PROVE FileInv'
<1> DEFINE k == alt_get_fd
           r == [dev |-> Stdio, flags |-> {"ALT_FD_DEV"}]
<1>1. /\ k \in Fds \ Std /\ k > 2 /\ Owner(k) = NoDev
      /\ NextMax \in -1..(ALT_MAX_FD - 1) /\ k <= NextMax /\ alt_max_fd <= NextMax
      /\ alt_max_fd' = NextMax /\ held' = held /\ redirected' \in 0..3
  BY NewSlot DEF Redirect, FileInv, FileTypeOK
<1>2. StreamNo \in Std /\ Std \subseteq Fds /\ Stdio \in Devices /\ Stdio # NoDev
  BY FileAssumption DEF StreamNo, Redirect, FileInv, FileTypeOK, Std, Fds
<1>3. CASE Admitted(Stdio) /\ alt_fd_list' =
              alt_release_fd([Claimed(Stdio, {}) EXCEPT ![StreamNo] = Claimed(Stdio, {})[k]], k)
  <2>1. OpenFlags(Stdio, {}) = {"ALT_FD_DEV"}
    BY <1>2 DEF OpenFlags
  <2> HIDE DEF k
  <2>2. Claimed(Stdio, {}) = [alt_fd_list EXCEPT ![k] = r]
    BY <2>1 DEF Claimed, k
  <2>3. Claimed(Stdio, {})[k] = r
    BY <1>1, <2>2 DEF FileInv, FileTypeOK
  <2>4. alt_fd_list' = [[[alt_fd_list EXCEPT ![k] = r] EXCEPT ![StreamNo] = r] EXCEPT ![k] = Free]
    BY <1>1, <1>3, <2>2, <2>3 DEF alt_release_fd
  <2>5. /\ alt_fd_list'[k] = Free /\ alt_fd_list'[StreamNo] = r
        /\ \A i \in Fds \ {k, StreamNo} : alt_fd_list'[i] = alt_fd_list[i]
    BY <1>1, <1>2, <2>4 DEF FileInv, FileTypeOK
  <2>6. \A i \in Fds : Owner(i) = Stdio => ~Locks(i)
    BY <1>2, <1>3, AdmittedMeansUnlocked DEF Redirect, Served
  <2>7. FileTypeOK'
    <3>1. Free \in [dev : Served \cup {NoDev}, flags : SUBSET Bits]
      BY DEF Free
    <3>2. r \in [dev : Served \cup {NoDev}, flags : SUBSET Bits]
      BY <1>2 DEF Bits, Served
    <3> QED  BY <1>1, <2>4, <3>1, <3>2 DEF FileInv, FileTypeOK
  <2>8. NoLeak'
    BY <1>1, <1>2, <2>5 DEF FileInv, NoLeak, Owner, Free
  <2>9. StdInUse'
    BY <1>1, <1>2, <2>5 DEF FileInv, StdInUse, Owner
  <2>10. MaxCovers'
    BY <1>1, <1>2, <2>5, FileAssumption
       DEF FileInv, FileTypeOK, MaxCovers, Owner, Locks, IsDevice, Free, Std, Fds
  <2>11. SharersAbove'
    BY <1>1, <1>2, <2>5, <2>6 DEF FileInv, SharersAbove, MaxCovers, Owner, Locks, IsDevice, Free
  <2> QED  BY <2>7, <2>8, <2>9, <2>10, <2>11 DEF FileInv
<1>4. CASE alt_fd_list' = Refused(Stdio, {})
  BY <1>1, <1>4, RefusedInv, FileAssumption DEF Redirect
<1> QED  BY <1>3, <1>4 DEF Redirect

LEMMA OpenInv ==
    ASSUME FileInv, NEW dev \in Served, NEW flags \in SUBSET Bits, Open(dev, flags)
    PROVE  FileInv'
<1> DEFINE k == alt_get_fd
           r == [dev |-> dev, flags |-> OpenFlags(dev, flags)]
<1>1. /\ k \in Fds \ Std /\ k > 2 /\ Owner(k) = NoDev
      /\ NextMax \in -1..(ALT_MAX_FD - 1) /\ k <= NextMax /\ alt_max_fd <= NextMax
      /\ alt_max_fd' = NextMax /\ held' = held \cup {k} /\ redirected' = redirected
  BY NewSlot DEF Open, Running
<1>2. dev # NoDev
  BY FileAssumption DEF Served
<1>3. alt_fd_list' = [alt_fd_list EXCEPT ![k] = r]
  BY DEF Open, Claimed
<1>4. /\ OpenFlags(dev, flags) \in SUBSET Bits
      /\ "ALT_FD_EXCL" \notin OpenFlags(dev, flags)
      /\ "ALT_FD_DEV" \in OpenFlags(dev, flags) => dev \in Devices
  BY DEF OpenFlags, Bits, ALT_FD_FLAGS_MASK
<1>5. \A i \in Fds : Owner(i) = dev => ~Locks(i)
  BY AdmittedMeansUnlocked DEF Open
<1> HIDE DEF k
<1>6. /\ alt_fd_list'[k] = r
      /\ \A i \in Fds \ {k} : alt_fd_list'[i] = alt_fd_list[i]
  BY <1>1, <1>3 DEF FileInv, FileTypeOK
<1>7. FileTypeOK'
  BY <1>1, <1>3, <1>4 DEF FileInv, FileTypeOK
<1>8. NoLeak'
  BY <1>1, <1>2, <1>6 DEF FileInv, NoLeak, Owner
<1>9. StdInUse'
  BY <1>1, <1>6, FileAssumption DEF FileInv, StdInUse, Owner, Std, Fds
<1>10. MaxCovers'
  BY <1>1, <1>4, <1>6, FileAssumption
     DEF FileInv, FileTypeOK, MaxCovers, Owner, Locks, IsDevice, Fds
<1>11. SharersAbove'
  BY <1>1, <1>4, <1>5, <1>6 DEF FileInv, SharersAbove, Owner, Locks
<1> QED  BY <1>7, <1>8, <1>9, <1>10, <1>11 DEF FileInv

\* A descriptor the program may use is open.
LEMMA UsableIsOpen ==
    ASSUME FileInv, NEW fd \in Usable
    PROVE  fd \in Fds /\ Owner(fd) # NoDev /\ Std \subseteq Fds
<1>1. Std \subseteq Fds
  BY FileAssumption DEF Std, Fds
<1> QED  BY <1>1 DEF Usable, FileInv, FileTypeOK, NoLeak, StdInUse, Owner

LEMMA CloseInv ==
    ASSUME FileInv, NEW fd \in Usable, Close(fd)
    PROVE  FileInv'
<1>1. fd \in Fds /\ Owner(fd) # NoDev /\ (fd > 2 <=> fd \notin Std)
  BY UsableIsOpen, FileAssumption DEF Std, Fds
<1>2. held' = held \ {fd} /\ alt_max_fd' = alt_max_fd /\ redirected' = redirected
  BY DEF Close, Running
<1>3. CASE fd \notin Std
  <2>1. alt_fd_list' = [alt_fd_list EXCEPT ![fd] = Free]
    BY <1>1, <1>3 DEF Close, alt_release_fd
  <2>2. alt_fd_list'[fd] = Free /\ \A i \in Fds \ {fd} : alt_fd_list'[i] = alt_fd_list[i]
    BY <1>1, <2>1 DEF FileInv, FileTypeOK
  <2>3. FileTypeOK'
    BY <1>2, <2>1 DEF FileInv, FileTypeOK, Free
  <2>4. NoLeak'
    BY <1>1, <1>2, <2>2 DEF FileInv, NoLeak, Owner, Free
  <2>5. StdInUse'
    BY <1>3, <2>2, FileAssumption DEF FileInv, StdInUse, Owner, Std, Fds
  <2>6. MaxCovers'
    BY <1>2, <2>2, FileAssumption DEF FileInv, MaxCovers, Owner, Locks, IsDevice, Free
  <2>7. SharersAbove'
    BY <1>1, <2>2, FileAssumption
       DEF FileInv, SharersAbove, MaxCovers, Owner, Locks, IsDevice, Free
  <2> QED  BY <2>3, <2>4, <2>5, <2>6, <2>7 DEF FileInv
<1>4. CASE fd \in Std
  <2>1. alt_fd_list' = alt_fd_list
    BY <1>1, <1>4 DEF Close, alt_release_fd
  <2>2. held' = held
    BY <1>2, <1>4 DEF FileInv, FileTypeOK
  <2> QED
    BY <1>2, <2>1, <2>2 DEF FileInv, FileTypeOK, NoLeak, StdInUse, MaxCovers, SharersAbove,
       Owner, Locks, IsDevice
<1> QED  BY <1>3, <1>4

\* Where only flags change, what matters is which of them.
LEMMA FlagsInv ==
    ASSUME FileInv, NEW fd \in Usable, NEW flags \in SUBSET Bits,
           alt_fd_list' = [alt_fd_list EXCEPT ![fd].flags = flags],
           UNCHANGED <<alt_max_fd, held, redirected>>,
           "ALT_FD_DEV" \in flags <=> IsDevice(fd),
           "ALT_FD_EXCL" \in flags => Locks(fd) \/ (IsDevice(fd) /\ LockGranted(fd))
    PROVE  FileInv'
<1>1. fd \in Fds /\ Owner(fd) # NoDev
  BY UsableIsOpen
<1>2. /\ \A i \in Fds : alt_fd_list'[i].dev = alt_fd_list[i].dev
      /\ alt_fd_list'[fd].flags = flags
      /\ \A i \in Fds \ {fd} : alt_fd_list'[i].flags = alt_fd_list[i].flags
  BY <1>1 DEF FileInv, FileTypeOK
<1>3. FileTypeOK'
  BY <1>1 DEF FileInv, FileTypeOK
<1>4. NoLeak' /\ StdInUse'
  <2>1. Std \subseteq Fds
    BY FileAssumption DEF Std, Fds
  <2> QED  BY <1>2, <2>1 DEF FileInv, NoLeak, StdInUse, Owner
<1>5. MaxCovers'
  BY <1>1, <1>2 DEF FileInv, MaxCovers, Owner, Locks, IsDevice
<1>6. SharersAbove'
  <2>1. SUFFICES ASSUME NEW a \in Fds, NEW i \in Fds,
                        Locks(a)', Owner(i)' = Owner(a)', i # a
                 PROVE  a < i
    BY DEF SharersAbove
  <2>2. Owner(i) = Owner(a)
    BY <1>2, <2>1 DEF Owner
  <2>3. CASE Locks(a)
    BY <2>1, <2>2, <2>3 DEF FileInv, SharersAbove
  <2>4. CASE ~Locks(a)
    <3>1. a = fd /\ IsDevice(a) /\ LockGranted(a)
      BY <1>2, <2>1, <2>4 DEF Locks
    <3>2. a <= alt_max_fd /\ i \notin 0..(alt_max_fd - 1)
      BY <2>1, <2>2, <3>1 DEF FileInv, MaxCovers, LockGranted, Owner
    <3> QED  BY <2>1, <3>2, FileAssumption DEF Fds, FileInv, FileTypeOK
  <2> QED  BY <2>3, <2>4
<1> QED  BY <1>3, <1>4, <1>5, <1>6 DEF FileInv

-----------------------------------------------------------------------------
(* All calls together.                                                     *)

LEMMA FileInvStep == FileInv /\ [FileNext]_fileVars => FileInv'
<1> SUFFICES ASSUME FileInv, [FileNext]_fileVars
             PROVE  FileInv'
  OBVIOUS
<1>1. CASE Redirect
  BY <1>1, RedirectInv
<1>2. ASSUME NEW dev \in Served, NEW flags \in SUBSET Bits, Open(dev, flags)
      PROVE  FileInv'
  BY <1>2, OpenInv
<1>3. ASSUME NEW dev \in Served, NEW flags \in SUBSET Bits, OpenFails(dev, flags)
      PROVE  FileInv'
  BY <1>3, RefusedInv DEF OpenFails, Running, FileInv, FileTypeOK
<1>4. ASSUME NEW fd \in Usable, Close(fd)
      PROVE  FileInv'
  BY <1>4, CloseInv
<1>5. ASSUME NEW fd \in Usable, Lock(fd)
      PROVE  FileInv'
  <2> DEFINE flags == alt_fd_list[fd].flags \cup {"ALT_FD_EXCL"}
  <2>1. flags \in SUBSET Bits
    BY UsableIsOpen DEF FileInv, FileTypeOK, Bits
  <2>2. "ALT_FD_DEV" \in flags <=> IsDevice(fd)
    BY DEF IsDevice
  <2>3. /\ IsDevice(fd) /\ LockGranted(fd)
        /\ alt_fd_list' = [alt_fd_list EXCEPT ![fd].flags = flags]
        /\ UNCHANGED <<alt_max_fd, held, redirected>>
    BY <1>5 DEF Lock, Running
  <2> HIDE DEF flags
  <2> QED  BY <2>1, <2>2, <2>3, FlagsInv
<1>6. ASSUME NEW fd \in Usable, Unlock(fd)
      PROVE  FileInv'
  <2> DEFINE flags == alt_fd_list[fd].flags \ {"ALT_FD_EXCL"}
  <2>1. flags \in SUBSET Bits
    BY UsableIsOpen DEF FileInv, FileTypeOK
  <2>2. ("ALT_FD_DEV" \in flags <=> IsDevice(fd)) /\ "ALT_FD_EXCL" \notin flags
    BY DEF IsDevice
  <2>3. /\ alt_fd_list' = [alt_fd_list EXCEPT ![fd].flags = flags]
        /\ UNCHANGED <<alt_max_fd, held, redirected>>
    BY <1>6 DEF Unlock, Running
  <2> HIDE DEF flags
  <2> QED  BY <2>1, <2>2, <2>3, FlagsInv
<1>7. ASSUME NEW fd \in Usable, NEW f \in SUBSET Bits, SetFlags(fd, f)
      PROVE  FileInv'
  <2> DEFINE flags == (alt_fd_list[fd].flags \ ALT_FCNTL_FLAGS_MASK)
                         \cup (f \cap ALT_FCNTL_FLAGS_MASK)
  <2>1. flags \in SUBSET Bits
    BY UsableIsOpen DEF FileInv, FileTypeOK
  <2>2. /\ "ALT_FD_DEV" \in flags <=> IsDevice(fd)
        /\ "ALT_FD_EXCL" \in flags => Locks(fd)
    BY DEF IsDevice, Locks, ALT_FCNTL_FLAGS_MASK
  <2>3. /\ alt_fd_list' = [alt_fd_list EXCEPT ![fd].flags = flags]
        /\ UNCHANGED <<alt_max_fd, held, redirected>>
    BY <1>7 DEF SetFlags, Running
  <2> HIDE DEF flags
  <2> QED  BY <2>1, <2>2, <2>3, FlagsInv
<1>8. CASE UNCHANGED fileVars
  BY <1>8 DEF fileVars, FileInv, FileTypeOK, NoLeak, StdInUse, MaxCovers, SharersAbove,
     Owner, Locks, IsDevice
<1> QED  BY <1>1, <1>2, <1>3, <1>4, <1>5, <1>6, <1>7, <1>8 DEF FileNext, Passed

LEMMA FileInvariant == FileSpec => []FileInv
  BY FileInvInit, FileInvStep, PTL DEF FileSpec

\* No call loses a descriptor or hands out one that is in use
\* (alt_open.c:161-166, alt_close.c:88, alt_io_redirect.c:62-71).
THEOREM NothingLeaks == FileSpec => []NoLeak
<1>1. FileInv => NoLeak
  BY DEF FileInv
<1> QED  BY <1>1, FileInvariant, PTL

\* Although alt_fd_lock.c:61 overlooks the highest slot, no device has two
\* owners.
THEOREM OneOwner == FileSpec => []OneLockPerDevice
<1>1. FileInv => OneLockPerDevice
  <2> SUFFICES ASSUME FileInv, NEW fd \in Fds, NEW i \in Fds, Locks(fd), Locks(i),
                      Owner(fd) = Owner(i), fd # i
               PROVE  FALSE
    BY DEF OneLockPerDevice, Owner
  <2>1. fd < i /\ i < fd
    BY DEF FileInv, SharersAbove
  <2> QED  BY <2>1, FileAssumption DEF Fds
<1> QED  BY <1>1, FileInvariant, PTL

\* alt_open.c:64-92 keeps everybody out of a locked device, alt_io_redirect
\* included.
THEOREM LockHolds == FileSpec => LockKeepsOthersOut
<1> DEFINE Kept ==
        \A fd \in Fds :
            alt_fd_list'[fd].dev \notin {NoDev, alt_fd_list[fd].dev} =>
                \A i \in Fds \ {fd} :
                    alt_fd_list[i].dev = alt_fd_list'[fd].dev => ~Locks(i)
<1>1. FileInv /\ [FileNext]_fileVars => [Kept]_fileVars
  <2> SUFFICES ASSUME FileInv, FileNext, NEW fd \in Fds, NEW i \in Fds,
                      alt_fd_list'[fd].dev # NoDev, alt_fd_list'[fd].dev # Owner(fd),
                      Owner(i) = alt_fd_list'[fd].dev
               PROVE  ~Locks(i)
    BY DEF Owner
  <2>1. CASE Redirect
    <3>1. HasFree /\ alt_get_fd \in Fds /\ alt_get_fd > 2 /\ StreamNo \in Std
      BY <2>1, NewSlot DEF Redirect, StreamNo, Std, FileInv, FileTypeOK
    <3>2. CASE alt_fd_list' = Refused(Stdio, {})
      BY <3>1, <3>2, RefusedChangesNothing
    <3>3. CASE Admitted(Stdio) /\ alt_fd_list' =
                  alt_release_fd([Claimed(Stdio, {}) EXCEPT
                      ![StreamNo] = Claimed(Stdio, {})[alt_get_fd]], alt_get_fd)
      <4>1. alt_fd_list'[fd].dev \in {Owner(fd), NoDev, Stdio}
        <5> HIDE DEF alt_get_fd
        <5> QED  BY <3>1, <3>3 DEF alt_release_fd, Claimed, Free, Owner, FileInv, FileTypeOK
      <4>2. Stdio \in Served
        BY FileAssumption DEF Served
      <4> QED  BY <3>1, <3>3, <4>1, <4>2, AdmittedMeansUnlocked
    <3> QED  BY <2>1, <3>2, <3>3 DEF Redirect
  <2>2. ASSUME NEW dev \in Served, NEW flags \in SUBSET Bits, Open(dev, flags)
        PROVE  ~Locks(i)
    <3>1. alt_fd_list'[fd].dev = dev
      BY <2>2, NewSlot DEF Open, Claimed, Owner, FileInv, FileTypeOK
    <3> QED  BY <2>2, <3>1, AdmittedMeansUnlocked DEF Open
  <2>3. ASSUME NEW dev \in Served, NEW flags \in SUBSET Bits, OpenFails(dev, flags)
        PROVE  ~Locks(i)
    BY <2>3, RefusedChangesNothing DEF OpenFails
  <2>4. ASSUME NEW d \in Usable, Close(d) \/ Lock(d) \/ Unlock(d)
                                \/ \E flags \in SUBSET Bits : SetFlags(d, flags)
        PROVE  FALSE
    <3>1. alt_fd_list'[fd].dev \in {Owner(fd), NoDev}
      BY <2>4 DEF Close, Lock, Unlock, SetFlags, alt_release_fd, Free, Owner, FileInv, FileTypeOK
    <3> QED  BY <3>1
  <2> QED  BY <2>1, <2>2, <2>3, <2>4 DEF FileNext, Passed
<1> QED  BY <1>1, FileInvariant, PTL DEF FileSpec, LockKeepsOthersOut

-----------------------------------------------------------------------------
(* The interrupts.                                                         *)

Registered == {i \in IRQS : alt_irq[i] # NoISR}

\* Where the program is, running or interrupted.
Place == IF pc \in ProgramPcs THEN pc ELSE ea

IrqTypeOK ==
    /\ lines \subseteq IRQS /\ active \subseteq IRQS
    /\ alt_irq \in [IRQS -> Handlers]
    /\ alt_irq_active \subseteq IRQS /\ ienable \subseteq IRQS
    /\ PIE \in BOOLEAN /\ estatus \in BOOLEAN
    /\ pc \in ProgramPcs \cup {"irqtest", "alt_irq_handler", "dispatch", "exit"}
    /\ ea \in ProgramPcs
    /\ irqcall \in [irq : IRQS, isr : Handlers, context : BOOLEAN]

\* Interrupts come in only before a registration has disabled them.
Masking ==
    /\ pc \in {"main", "disable_all"} => PIE
    /\ pc \notin {"main", "disable_all"} => ~PIE
    /\ pc \notin ProgramPcs => estatus /\ ea \in {"main", "disable_all"}
    /\ Place # "main" => irqcall.context = TRUE

\* How far a registration has brought the three tables.
Tables ==
    /\ Place # "ienable" => alt_irq_active = ienable
    /\ Place # "irq_active" => alt_irq_active = Registered
    /\ Place = "irq_active" =>
         Registered = Enabled(alt_irq_active, irqcall.irq, irqcall.isr)

Dispatching ==
    /\ pc \in {"irqtest", "alt_irq_handler"} => ipending # {}
    /\ pc = "dispatch" => active # {} /\ active \subseteq ienable

IrqInv == IrqTypeOK /\ Masking /\ Tables /\ Dispatching

LEMMA IrqInvInit == InterruptsInit => IrqInv
  BY InterruptAssumption DEF InterruptsInit, IrqInv, IrqTypeOK, Masking, Tables, Dispatching, ProgramPcs,
     Place, Registered, Handlers

LEMMA EnabledRegistered ==
    ASSUME NEW t \in [IRQS -> Handlers], NEW i \in IRQS, NEW h \in Handlers
    PROVE  {j \in IRQS : [t EXCEPT ![i] = h][j] # NoISR}
             = Enabled({j \in IRQS : t[j] # NoISR}, i, h)
<1>1. CASE h # NoISR
  BY <1>1 DEF Enabled
<1>2. CASE h = NoISR
  BY <1>2 DEF Enabled
<1> QED  BY <1>1, <1>2

LEMMA ProgramInv == ASSUME IrqInv, Program PROVE IrqInv'
<1> USE DEF ProgramPcs, Place, cpu, table
<1>1. ASSUME NEW i \in IRQS, NEW h \in Handlers, isr_register(i, h)
      PROVE  IrqInv'
  <2>1. pc = "main" /\ pc' = "disable_all" /\ PIE /\ irqcall'.context = TRUE
        /\ UNCHANGED <<PIE, estatus, ea, lines, active, alt_irq, alt_irq_active, ienable>>
        /\ irqcall' \in [irq : IRQS, isr : Handlers, context : BOOLEAN]
    BY <1>1 DEF isr_register, Goto, IrqInv, Masking, IrqTypeOK
  <2> QED  BY <2>1 DEF IrqInv, IrqTypeOK, Masking, Tables, Dispatching, Registered
<1>2. CASE pc = "disable_all" /\ disable_all
  BY <1>2 DEF disable_all, IrqInv, IrqTypeOK, Masking, Tables, Dispatching, Registered
<1>3. CASE pc = "handler" /\ SetHandler
  <2>1. pc' = "irq_active" /\ UNCHANGED <<PIE, estatus, ea, lines, active, irqcall,
                                          alt_irq_active, ienable>>
    BY <1>3 DEF SetHandler, Goto
  <2>2. alt_irq' = [alt_irq EXCEPT ![irqcall.irq] = irqcall.isr]
    BY <1>3 DEF SetHandler
  <2>3. irqcall.irq \in IRQS /\ irqcall.isr \in Handlers /\ alt_irq \in [IRQS -> Handlers]
    BY DEF IrqInv, IrqTypeOK
  <2>4. alt_irq' \in [IRQS -> Handlers]
    BY <2>2, <2>3
  <2>5. Registered' = Enabled(Registered, irqcall.irq, irqcall.isr)
    BY <2>2, <2>3, EnabledRegistered DEF Registered
  <2>6. IrqTypeOK'
    BY <2>1, <2>4 DEF IrqInv, IrqTypeOK
  <2>7. Masking' /\ Dispatching'
    BY <1>3, <2>1 DEF IrqInv, Masking, Dispatching
  <2>8. Tables'
    BY <1>3, <2>1, <2>5 DEF IrqInv, Tables, Enabled
  <2> QED  BY <2>6, <2>7, <2>8 DEF IrqInv
<1>4. CASE pc = "irq_active" /\ SetActive
  <2>1. pc' = "ienable" /\ UNCHANGED <<PIE, estatus, ea, lines, active, irqcall,
                                       alt_irq, ienable>>
    BY <1>4 DEF SetActive, Goto
  <2>2. alt_irq_active' = Registered /\ Registered' = Registered
    BY <1>4, <2>1 DEF SetActive, IrqInv, Tables, Registered
  <2>3. IrqTypeOK'
    BY <2>1, <2>2 DEF IrqInv, IrqTypeOK, Registered
  <2>4. Masking' /\ Dispatching'
    BY <1>4, <2>1 DEF IrqInv, Masking, Dispatching
  <2>5. Tables'
    BY <1>4, <2>1, <2>2 DEF Tables
  <2> QED  BY <2>3, <2>4, <2>5 DEF IrqInv
<1>5. CASE pc = "ienable" /\ WriteIenable
  BY <1>5 DEF WriteIenable, Goto, IrqInv, IrqTypeOK, Masking, Tables, Dispatching, Registered
<1>6. CASE pc = "enable_all" /\ enable_all
  BY <1>6 DEF enable_all, IrqInv, IrqTypeOK, Masking, Tables, Dispatching, Registered
<1> QED  BY <1>1, <1>2, <1>3, <1>4, <1>5, <1>6 DEF Program

LEMMA ExceptionInv == ASSUME IrqInv, Exception PROVE IrqInv'
<1> USE DEF ProgramPcs, Place, cpu, table
<1>1. CASE Interrupt
  BY <1>1 DEF Interrupt, ipending, IrqInv, IrqTypeOK, Masking, Tables, Dispatching, Registered
<1>2. CASE irqtest
  <2>1. pc' = "alt_irq_handler"
    BY <1>2 DEF irqtest, Goto, IrqInv, Masking, Dispatching
  <2> QED
    BY <1>2, <2>1 DEF irqtest, Goto, ipending, IrqInv, IrqTypeOK, Masking, Tables,
       Dispatching, Registered
<1>3. CASE alt_irq_handler
  BY <1>3 DEF alt_irq_handler, Goto, ipending, IrqInv, IrqTypeOK, Masking, Tables,
     Dispatching, Registered
<1>4. CASE dispatch
  <2>1. /\ pc = "dispatch" /\ active' = lines' \cap ienable'
        /\ pc' = IF active' = {} THEN "exit" ELSE "dispatch"
        /\ UNCHANGED <<PIE, estatus, ea, irqcall>> /\ lines' \subseteq lines
    BY <1>4 DEF dispatch, StillActive, Goto
  <2>2. /\ alt_irq_active = ienable /\ alt_irq_active = Registered
        /\ ea \in {"main", "disable_all"} /\ Place' = Place /\ Place = ea
    BY <2>1 DEF IrqInv, Masking, Tables
  <2>3. /\ alt_irq' \in [IRQS -> Handlers] /\ alt_irq_active' = ienable'
        /\ alt_irq_active' \subseteq IRQS /\ alt_irq_active' = Registered'
    <3> DEFINE Fits == /\ alt_irq' \in [IRQS -> Handlers] /\ alt_irq_active' = ienable'
                       /\ alt_irq_active' \subseteq IRQS /\ alt_irq_active' = Registered'
    <3>1. CASE UNCHANGED <<alt_irq, alt_irq_active, ienable>>
      BY <2>2, <3>1 DEF IrqInv, IrqTypeOK, Registered
    <3>2. ASSUME NEW j \in IRQS, NEW h \in Handlers,
                 alt_irq' = [alt_irq EXCEPT ![j] = h],
                 alt_irq_active' = Enabled(alt_irq_active, j, h),
                 ienable' = alt_irq_active'
          PROVE  Fits
      <4>1. alt_irq \in [IRQS -> Handlers]
        BY DEF IrqInv, IrqTypeOK
      <4>2. alt_irq' \in [IRQS -> Handlers]
        BY <3>2, <4>1
      <4>3. Registered' = Enabled(Registered, j, h)
        BY <3>2, <4>1, EnabledRegistered DEF Registered
      <4>4. Registered' \subseteq IRQS
        BY DEF Registered
      <4> QED  BY <2>2, <3>2, <4>2, <4>3, <4>4
    <3> QED  BY <1>4, <3>1, <3>2 DEF dispatch
  <2>4. IrqTypeOK'
    BY <2>1, <2>3 DEF IrqInv, IrqTypeOK
  <2>5. Masking' /\ Dispatching'
    BY <2>1, <2>2 DEF IrqInv, Masking, Dispatching
  <2>6. Tables'
    BY <2>1, <2>2, <2>3 DEF Tables
  <2> QED  BY <2>4, <2>5, <2>6 DEF IrqInv
<1>5. CASE eret
  BY <1>5 DEF eret, Resume, IrqInv, IrqTypeOK, Masking, Tables, Dispatching, Registered
<1> QED  BY <1>1, <1>2, <1>3, <1>4, <1>5 DEF Exception

LEMMA IrqInvNext == IrqInv /\ [InterruptsNext]_irqVars => IrqInv'
<1> SUFFICES ASSUME IrqInv, [InterruptsNext]_irqVars PROVE IrqInv'
  OBVIOUS
<1>1. ASSUME NEW i \in IRQS, Raise(i) PROVE IrqInv'
  BY <1>1 DEF Raise, cpu, table, ipending, IrqInv, IrqTypeOK, Masking, Tables,
     Dispatching, Registered, Place
<1>2. ASSUME NEW i \in IRQS, Lower(i) PROVE IrqInv'
  BY <1>2 DEF Lower, cpu, table, ProgramPcs, IrqInv, IrqTypeOK, Masking, Tables,
     Dispatching, Registered, Place
<1>3. CASE UNCHANGED irqVars
  BY <1>3 DEF irqVars, ipending, IrqInv, IrqTypeOK, Masking, Tables, Dispatching,
     Registered, Place
<1> QED  BY <1>1, <1>2, <1>3, ProgramInv, ExceptionInv DEF InterruptsNext

\* Whatever lines rise and whatever handlers come and go, the dispatcher finds
\* a line that is active and a handler for it (alt_irq_handler.c:128-159).
THEOREM HandlersStay == InterruptsSpec => []HandlerIsThere
<1>1. IrqInv => HandlerIsThere
  BY DEF IrqInv, IrqTypeOK, Masking, Tables, Dispatching, HandlerIsThere, ProgramPcs,
     Place, Registered
<1> QED  BY <1>1, IrqInvInit, IrqInvNext, PTL DEF InterruptsSpec

\* The program runs with interrupts enabled and a mask that fits the table, and
\* no interrupt is taken for a failed instruction (alt_irq_entry.S:79-83).
THEOREM ProgramReturns == InterruptsSpec => []ProgramUndisturbed
<1>1. IrqInv => ProgramUndisturbed
  BY DEF IrqInv, IrqTypeOK, Masking, Tables, ProgramUndisturbed, ProgramPcs, Place, Registered
<1> QED  BY <1>1, IrqInvInit, IrqInvNext, PTL DEF InterruptsSpec

-----------------------------------------------------------------------------
(* The list of alarms.                                                     *)

Distinct(s) == \A i, j \in 1..Len(s) : s[i] = s[j] => i = j

\* a comes no later than b on a walk.
NoLater(s, a, b) == \E i, j \in 1..Len(s) : i <= j /\ s[i] = a /\ s[j] = b

LEMMA Removed ==
    ASSUME NEW S, NEW s \in Seq(S), NEW i \in 1..Len(s)
    PROVE  /\ RemoveAt(s, i) \in Seq(S)
           /\ Len(RemoveAt(s, i)) = Len(s) - 1
           /\ \A j \in 1..(Len(s) - 1) :
                  RemoveAt(s, i)[j] = IF j < i THEN s[j] ELSE s[j + 1]
<1> DEFINE front == SubSeq(s, 1, i - 1)
           back == SubSeq(s, i + 1, Len(s))
<1>1. Len(s) \in Nat /\ i \in Int /\ 1 <= i /\ i <= Len(s)
      /\ \A j \in 1..Len(s) : s[j] \in S
  BY ElementOfSeq
<1>2. /\ front \in Seq(S) /\ Len(front) = i - 1
      /\ \A j \in 1..(i - 1) : front[j] = s[j]
  <2>1. \A j \in 1..(i - 1) : s[j] \in S
    BY <1>1
  <2>2. /\ front \in Seq(S) /\ Len(front) = IF 1 <= i - 1 THEN i - 1 - 1 + 1 ELSE 0
        /\ \A j \in 1..(i - 1 - 1 + 1) : front[j] = s[1 + j - 1]
    BY <1>1, <2>1, SubSeqProperties
  <2>3. \A j \in 1..(i - 1) : j \in 1..(i - 1 - 1 + 1) /\ 1 + j - 1 = j
    BY <1>1
  <2> HIDE DEF front
  <2> QED  BY <1>1, <2>2, <2>3
<1>3. /\ back \in Seq(S) /\ Len(back) = Len(s) - i
      /\ \A j \in 1..(Len(s) - i) : back[j] = s[i + j]
  <2>1. \A j \in (i + 1)..Len(s) : s[j] \in S
    BY <1>1
  <2>2. /\ back \in Seq(S)
        /\ Len(back) = IF i + 1 <= Len(s) THEN Len(s) - (i + 1) + 1 ELSE 0
        /\ \A j \in 1..(Len(s) - (i + 1) + 1) : back[j] = s[i + 1 + j - 1]
    BY <1>1, <2>1, SubSeqProperties
  <2>3. \A j \in 1..(Len(s) - i) : j \in 1..(Len(s) - (i + 1) + 1) /\ i + 1 + j - 1 = i + j
    BY <1>1
  <2> HIDE DEF back
  <2> QED  BY <1>1, <2>2, <2>3
<1>4. RemoveAt(s, i) = front \o back
  BY DEF RemoveAt
<1> HIDE DEF front, back
<1>5. /\ front \o back \in Seq(S) /\ Len(front \o back) = Len(front) + Len(back)
      /\ \A j \in 1..(Len(front) + Len(back)) :
             (front \o back)[j] = IF j <= Len(front) THEN front[j] ELSE back[j - Len(front)]
  BY <1>2, <1>3, ConcatProperties
<1>6. Len(front) + Len(back) = Len(s) - 1
  BY <1>1, <1>2, <1>3
<1>7. ASSUME NEW j \in 1..(Len(s) - 1)
      PROVE  (front \o back)[j] = IF j < i THEN s[j] ELSE s[j + 1]
  <2>1. CASE j < i
    <3>1. j \in 1..(i - 1) /\ j <= Len(front) /\ j \in 1..(Len(front) + Len(back))
      BY <1>1, <1>2, <1>6, <2>1
    <3> QED  BY <1>2, <1>5, <2>1, <3>1
  <2>2. CASE ~(j < i)
    <3>1. /\ j - Len(front) \in 1..(Len(s) - i) /\ ~(j <= Len(front))
          /\ j \in 1..(Len(front) + Len(back)) /\ i + (j - Len(front)) = j + 1
      BY <1>1, <1>2, <1>6, <2>2
    <3> QED  BY <1>3, <1>5, <2>2, <3>1
  <2> QED  BY <2>1, <2>2
<1> QED  BY <1>4, <1>5, <1>6, <1>7

LEMMA WhereIs ==
    ASSUME NEW s, NEW a, Contains(s, a)
    PROVE  Where(s, a) \in 1..Len(s) /\ s[Where(s, a)] = a
  BY DEF Contains, Where

\* A removed alarm is gone, and the others keep their order.
LEMMA WithoutList ==
    ASSUME NEW s \in Seq(Alarms), Distinct(s), NEW a
    PROVE  /\ Without(s, a) \in Seq(Alarms) /\ Distinct(Without(s, a))
           /\ \A c : Contains(Without(s, a), c) <=> Contains(s, c) /\ c # a
           /\ \A c, d : c # a /\ d # a =>
                  (NoLater(Without(s, a), c, d) <=> NoLater(s, c, d))
<1>1. CASE ~Contains(s, a)
  BY <1>1 DEF Without
<1>2. CASE Contains(s, a)
  <2>1. PICK i \in 1..Len(s) : s[i] = a /\ Without(s, a) = RemoveAt(s, i)
    BY <1>2, WhereIs DEF Without
  <2> DEFINE r == RemoveAt(s, i)
             n == Len(s)
             old(j) == IF j < i THEN j ELSE j + 1
  <2>2. r \in Seq(Alarms) /\ Len(r) = n - 1 /\ n \in Nat
        /\ \A j \in 1..(n - 1) : r[j] = IF j < i THEN s[j] ELSE s[j + 1]
    BY Removed
  <2> HIDE DEF r, n
  <2>3. \A j \in 1..(n - 1) : old(j) \in 1..n /\ old(j) # i /\ r[j] = s[old(j)]
    BY <2>2 DEF n
  <2>4. \A j \in 1..n : j # i => \E k \in 1..(n - 1) : old(k) = j
    <3> SUFFICES ASSUME NEW j \in 1..n, j # i PROVE \E k \in 1..(n - 1) : old(k) = j
      OBVIOUS
    <3>1. i \in 1..n
      BY DEF n
    <3>2. CASE j < i
      <4>1. j \in 1..(n - 1) /\ old(j) = j
        BY <2>2, <3>1, <3>2
      <4> QED  BY <4>1
    <3>3. CASE j > i
      <4>1. j - 1 \in 1..(n - 1) /\ old(j - 1) = j
        BY <2>2, <3>1, <3>3
      <4> QED  BY <4>1
    <3> QED  BY <2>2, <3>1, <3>2, <3>3
  <2>5. \A j, k \in 1..(n - 1) : (old(j) = old(k) => j = k) /\ (old(j) <= old(k) <=> j <= k)
    BY <2>2 DEF n
  <2> HIDE DEF old
  <2>6. \A j, k \in 1..n : s[j] = s[k] => j = k
    BY DEF Distinct, n
  <2>7. s[i] = a /\ i \in 1..n /\ \A c : Contains(s, c) <=> \E j \in 1..n : s[j] = c
    BY <2>1 DEF Contains, n
  <2>8. \A c : Contains(r, c) <=> \E j \in 1..(n - 1) : r[j] = c
    BY <2>2 DEF Contains
  <2>9. Distinct(r)
    <3>1. \A j, k \in 1..(n - 1) : r[j] = r[k] => j = k
      BY <2>3, <2>5, <2>6
    <3> QED  BY <2>2, <3>1 DEF Distinct
  <2>10. ASSUME NEW c PROVE Contains(r, c) <=> Contains(s, c) /\ c # a
    BY <2>3, <2>4, <2>6, <2>7, <2>8
  <2>11. ASSUME NEW c, NEW d, c # a, d # a
         PROVE  NoLater(r, c, d) <=> NoLater(s, c, d)
    <3>1. ASSUME NEW j \in 1..(n - 1), NEW k \in 1..(n - 1), j <= k, r[j] = c, r[k] = d
          PROVE  NoLater(s, c, d)
      <4>1. /\ old(j) \in 1..n /\ old(k) \in 1..n /\ old(j) <= old(k)
            /\ s[old(j)] = c /\ s[old(k)] = d
        BY <2>3, <2>5, <3>1
      <4> QED  BY <4>1 DEF NoLater, n
    <3>2. ASSUME NEW j \in 1..n, NEW k \in 1..n, j <= k, s[j] = c, s[k] = d
          PROVE  NoLater(r, c, d)
      <4>1. j # i /\ k # i
        BY <2>7, <2>11, <3>2
      <4>2. PICK x \in 1..(n - 1), y \in 1..(n - 1) : old(x) = j /\ old(y) = k
        BY <2>4, <4>1
      <4>3. x <= y /\ r[x] = c /\ r[y] = d
        BY <2>3, <2>5, <3>2, <4>2
      <4> QED  BY <2>2, <4>3 DEF NoLater
    <3>3. NoLater(s, c, d) <=> \E j, k \in 1..n : j <= k /\ s[j] = c /\ s[k] = d
      BY DEF NoLater, n
    <3>4. NoLater(r, c, d) <=> \E j, k \in 1..(n - 1) : j <= k /\ r[j] = c /\ r[k] = d
      BY <2>2 DEF NoLater
    <3> QED  BY <3>1, <3>2, <3>3, <3>4
  <2>12. Without(s, a) = r
    BY <2>1 DEF r
  <2> QED  BY <2>2, <2>9, <2>10, <2>11, <2>12
<1> QED  BY <1>1, <1>2

\* A new alarm comes first, before those that are there.
LEMMA InsertList ==
    ASSUME NEW s \in Seq(Alarms), Distinct(s), NEW a \in Alarms, ~Contains(s, a)
    PROVE  /\ Insert(s, a) \in Seq(Alarms) /\ Distinct(Insert(s, a))
           /\ \A c : Contains(Insert(s, a), c) <=> Contains(s, c) \/ c = a
           /\ \A c, d : c # a /\ d # a =>
                  (NoLater(Insert(s, a), c, d) <=> NoLater(s, c, d))
           /\ \A c : Contains(Insert(s, a), c) => NoLater(Insert(s, a), a, c)
<1> DEFINE r == Insert(s, a)
           n == Len(s)
<1>1. n \in Nat /\ r \in Seq(Alarms) /\ Len(r) = n + 1
      /\ \A j \in 1..(n + 1) : r[j] = IF j <= 1 THEN a ELSE s[j - 1]
  <2>1. <<a>> \in Seq(Alarms) /\ Len(<<a>>) = 1 /\ <<a>>[1] = a
    OBVIOUS
  <2>2. n \in Nat
    OBVIOUS
  <2>3. /\ <<a>> \o s \in Seq(Alarms) /\ Len(<<a>> \o s) = 1 + n
        /\ \A j \in 1..(1 + n) : (<<a>> \o s)[j] = IF j <= 1 THEN <<a>>[j] ELSE s[j - 1]
    BY <2>1, ConcatProperties
  <2> QED  BY <2>1, <2>2, <2>3 DEF Insert
<1> HIDE DEF r, n
<1>2. \A j \in 1..n : j + 1 \in 1..(n + 1) /\ r[j + 1] = s[j] /\ j + 1 # 1 /\ s[j] # a
  BY <1>1 DEF Contains, n
<1>3. \A j \in 1..(n + 1) : j = 1 \/ (j - 1 \in 1..n /\ r[j] = s[j - 1] /\ s[j - 1] # a)
  BY <1>1 DEF Contains, n
<1>4. r[1] = a /\ 1 \in 1..(n + 1)
  BY <1>1
<1>5. \A j, k \in 1..n : s[j] = s[k] => j = k
  BY DEF Distinct, n
<1>6. Distinct(r)
  <2>1. ASSUME NEW j \in 1..(n + 1), NEW k \in 1..(n + 1), r[j] = r[k] PROVE j = k
    <3>1. CASE j = 1
      BY <1>3, <1>4, <2>1, <3>1
    <3>2. CASE k = 1
      BY <1>3, <1>4, <2>1, <3>2
    <3>3. CASE j # 1 /\ k # 1
      <4>1. j - 1 = k - 1
        BY <1>3, <1>5, <2>1, <3>3
      <4> QED  BY <1>1, <4>1
    <3> QED  BY <3>1, <3>2, <3>3
  <2> QED  BY <1>1, <2>1 DEF Distinct
<1>7. ASSUME NEW c PROVE Contains(r, c) <=> Contains(s, c) \/ c = a
  <2>1. Contains(r, c) <=> \E j \in 1..(n + 1) : r[j] = c
    BY <1>1 DEF Contains
  <2>2. Contains(s, c) <=> \E j \in 1..n : s[j] = c
    BY DEF Contains, n
  <2> QED  BY <1>2, <1>3, <1>4, <2>1, <2>2
<1>8. \A c, d : NoLater(r, c, d) <=> \E j, k \in 1..(n + 1) : j <= k /\ r[j] = c /\ r[k] = d
  BY <1>1 DEF NoLater
<1>9. ASSUME NEW c, NEW d, c # a, d # a
      PROVE  NoLater(r, c, d) <=> NoLater(s, c, d)
  <2>1. ASSUME NEW j \in 1..(n + 1), NEW k \in 1..(n + 1), j <= k, r[j] = c, r[k] = d
        PROVE  NoLater(s, c, d)
    <3>1. j - 1 \in 1..n /\ k - 1 \in 1..n /\ s[j - 1] = c /\ s[k - 1] = d
      BY <1>3, <1>4, <1>9, <2>1
    <3>2. j - 1 <= k - 1
      BY <1>1, <2>1
    <3> QED  BY <3>1, <3>2 DEF NoLater, n
  <2>2. ASSUME NEW j \in 1..n, NEW k \in 1..n, j <= k, s[j] = c, s[k] = d
        PROVE  NoLater(r, c, d)
    <3>1. j + 1 <= k + 1
      BY <1>1, <2>2
    <3> QED  BY <1>2, <1>8, <2>2, <3>1
  <2>3. NoLater(s, c, d) <=> \E j, k \in 1..n : j <= k /\ s[j] = c /\ s[k] = d
    BY DEF NoLater, n
  <2> QED  BY <1>8, <2>1, <2>2, <2>3
<1>10. ASSUME NEW c, Contains(r, c) PROVE NoLater(r, a, c)
  <2>1. PICK k \in 1..(n + 1) : r[k] = c
    BY <1>1, <1>10 DEF Contains
  <2>2. 1 <= k
    OBVIOUS
  <2> QED  BY <1>4, <1>8, <2>1, <2>2
<1> QED  BY <1>1, <1>6, <1>7, <1>9, <1>10 DEF r

-----------------------------------------------------------------------------
(* The walk of alt_tick.                                                   *)

\* What a walk that stands at an alarm has still before it, that alarm
\* included: the whole list, when the alarm is outside of it.
AheadIn(list, at, a) == NoLater(list, at, a) \/ (at # HEAD /\ ~Contains(list, at))
Ahead(a) == AheadIn(alarms, alarm, a)

ListOK ==
    /\ alarms \in Seq(Alarms) /\ Distinct(alarms)
    /\ alarm = HEAD \/ alarm \in Alarms

\* The successor of an alarm of the list: the walk has then passed the alarm
\* and nothing else.
LEMMA Successor ==
    ASSUME ListOK, Listed(alarm)
    PROVE  /\ NextOf(alarm) # alarm
           /\ NextOf(alarm) = HEAD \/ (NextOf(alarm) \in Alarms /\ Listed(NextOf(alarm)))
           /\ \A c \in Alarms \ {alarm} :
                  NoLater(alarms, NextOf(alarm), c) <=> NoLater(alarms, alarm, c)
           /\ NoLater(alarms, alarm, alarm) /\ alarm \in Alarms /\ alarm # HEAD
<1> DEFINE p == Position(alarm)
           n == Len(alarms)
<1>1. p \in 1..n /\ alarms[p] = alarm /\ n \in Nat
      /\ (\A j \in 1..n : alarms[j] \in Alarms) /\ HEAD \notin Alarms
  BY WhereIs, ElementOfSeq, ClockAssumption DEF ListOK, Listed, Position
<1>2. NextOf(alarm) = IF p = n THEN HEAD ELSE alarms[p + 1]
  BY DEF NextOf, ListOK
<1> HIDE DEF p, n
<1>3. \A j, k \in 1..n : alarms[j] = alarms[k] => j = k
  BY DEF ListOK, Distinct, n
<1>4. \A c, d : NoLater(alarms, c, d)
                  <=> \E j, k \in 1..n : j <= k /\ alarms[j] = c /\ alarms[k] = d
  BY DEF NoLater, n
<1>5. \A c : Listed(c) <=> \E j \in 1..n : alarms[j] = c
  BY DEF Listed, Contains, n
<1>6. NoLater(alarms, alarm, alarm) /\ alarm \in Alarms /\ alarm # HEAD
  BY <1>1, <1>4
<1>7. CASE p = n
  <2>1. NextOf(alarm) = HEAD
    BY <1>2, <1>7
  <2>2. \A c : ~NoLater(alarms, HEAD, c)
    BY <1>1, <1>4
  <2>3. ASSUME NEW c \in Alarms \ {alarm}, NoLater(alarms, alarm, c) PROVE FALSE
    <3>1. PICK j \in 1..n, k \in 1..n : j <= k /\ alarms[j] = alarm /\ alarms[k] = c
      BY <1>4, <2>3
    <3>2. j = p
      BY <1>1, <1>3, <3>1
    <3>3. k = p
      BY <1>1, <1>7, <3>1, <3>2
    <3> QED  BY <1>1, <2>3, <3>1, <3>3
  <2> QED  BY <1>1, <1>6, <2>1, <2>2, <2>3
<1>8. CASE p # n
  <2>1. p + 1 \in 1..n /\ p + 1 # p /\ p <= p + 1
    BY <1>1, <1>8
  <2>2. NextOf(alarm) = alarms[p + 1]
    BY <1>2, <1>8
  <2>3. NextOf(alarm) # alarm /\ NextOf(alarm) \in Alarms /\ Listed(NextOf(alarm))
    BY <1>1, <1>3, <1>5, <2>1, <2>2
  <2>4. ASSUME NEW c \in Alarms \ {alarm}
        PROVE  NoLater(alarms, NextOf(alarm), c) <=> NoLater(alarms, alarm, c)
    <3>1. ASSUME NEW k \in 1..n, p <= k, alarms[k] = c PROVE p + 1 <= k
      <4>1. k # p
        BY <1>1, <2>4, <3>1
      <4> QED  BY <1>1, <3>1, <4>1
    <3>2. \A k \in 1..n : p + 1 <= k => p <= k
      BY <1>1
    <3>3. NoLater(alarms, alarm, c) <=> \E k \in 1..n : p <= k /\ alarms[k] = c
      BY <1>1, <1>3, <1>4
    <3>4. NoLater(alarms, NextOf(alarm), c) <=> \E k \in 1..n : p + 1 <= k /\ alarms[k] = c
      BY <1>3, <1>4, <2>1, <2>2
    <3> QED  BY <3>1, <3>2, <3>3, <3>4
  <2> QED  BY <1>6, <2>3, <2>4
<1> QED  BY <1>7, <1>8

\* An alarm outside of the list is its own successor.
LEMMA NextAlarm ==
    ASSUME ListOK, alarm \in Alarms
    PROVE  /\ NextOf(alarm) = HEAD \/ NextOf(alarm) \in Alarms
           /\ ~Listed(alarm) => NextOf(alarm) = alarm
           /\ Listed(alarm) => NextOf(alarm) # alarm
  BY Successor DEF NextOf

\* At its beginning the walk has the whole list before it.
LEMMA WalkBegins ==
    ASSUME ListOK, alarms # << >>
    PROVE  /\ Head(alarms) \in Alarms /\ Listed(Head(alarms))
           /\ \A c : Listed(c) => NoLater(alarms, Head(alarms), c)
<1>1. Len(alarms) \in Nat \ {0} /\ Head(alarms) = alarms[1]
      /\ Head(alarms) \in Alarms
  BY EmptySeq, HeadTailProperties DEF ListOK
<1>2. 1 \in 1..Len(alarms) /\ \A j \in 1..Len(alarms) : 1 <= j
  BY <1>1
<1> QED  BY <1>1, <1>2 DEF Listed, Contains, NoLater

\* Between two ticks nothing is ahead.
LEMMA AtRest ==
    ASSUME NEW list \in Seq(Alarms), NEW c
    PROVE  ~AheadIn(list, HEAD, c)
<1>1. \A j \in 1..Len(list) : list[j] # HEAD
  BY ElementOfSeq, ClockAssumption
<1> QED  BY <1>1 DEF AheadIn, NoLater

\* Ticks to go to the count t, with the flag r, at the count n.
Count(t, r, n, ahead) == t - n + (IF r /\ ~(n = 0 /\ ahead) THEN WRAP ELSE 0)

LEMMA TicksLeftIs ==
    ListOK => \A a \in Alarms : Listed(a) =>
        TicksLeft(a) = Count(time[a], rollover[a], nticks, Ahead(a))
<1> SUFFICES ASSUME ListOK, NEW a \in Alarms, Listed(a)
             PROVE  TicksLeft(a) = Count(time[a], rollover[a], nticks, Ahead(a))
  OBVIOUS
<1>1. NotYetVisited(a) <=> Ahead(a)
  <2>1. CASE alarm = HEAD
    BY <2>1, AtRest DEF NotYetVisited, Ahead, Idle, ListOK
  <2>2. CASE alarm # HEAD /\ ~Listed(alarm)
    BY <2>2 DEF NotYetVisited, Ahead, AheadIn, Idle, Listed
  <2>3. CASE alarm # HEAD /\ Listed(alarm)
    <3>1. /\ Position(a) \in 1..Len(alarms) /\ alarms[Position(a)] = a
          /\ Position(alarm) \in 1..Len(alarms) /\ alarms[Position(alarm)] = alarm
      BY <2>3, WhereIs DEF Listed, Position
    <3> DEFINE p == Position(alarm)
               q == Position(a)
    <3>2. \A j \in 1..Len(alarms) : (alarms[j] = a => j = q) /\ (alarms[j] = alarm => j = p)
      BY <3>1 DEF ListOK, Distinct
    <3> HIDE DEF p, q
    <3>3. NoLater(alarms, alarm, a) <=> p <= q
      BY <3>1, <3>2 DEF NoLater, p, q
    <3>4. Ahead(a) <=> p <= q
      BY <2>3, <3>3 DEF Ahead, AheadIn, Listed
    <3>5. NotYetVisited(a) <=> q >= p
      BY <2>3 DEF NotYetVisited, Idle, p, q
    <3>6. p \in Int /\ q \in Int
      BY <3>1 DEF p, q, ListOK
    <3> QED  BY <3>4, <3>5, <3>6
  <2> QED  BY <2>1, <2>2, <2>3
<1> QED  BY <1>1 DEF TicksLeft, Beyond, Count

-----------------------------------------------------------------------------
(* The invariant of the clock.                                             *)

ClockTypeOK ==
    /\ nticks \in 0..(WRAP - 1)
    /\ time \in [Alarms -> 0..(WRAP - 1)]
    /\ rollover \in [Alarms -> BOOLEAN]

\* No alarm is overdue, and only those ahead of the walk are due; those that
\* went astray excepted.
Due(n, ahead) == n \in 0..(WRAP - 1) /\ (n = 0 => ahead)
Punctual == \A a \in Alarms : Listed(a) /\ a \notin astray => Due(Left(a), Ahead(a))

ClockInv == ClockTypeOK /\ ListOK /\ Punctual

\* What is left for an alarm, from a list, the alarms' fields, the count, the
\* place of the walk and the alarms astray.
View(a, list, due, beyond, n, at, lost) ==
    IF ~Contains(list, a) THEN -1
    ELSE IF a \in lost THEN -2 ELSE Count(due[a], beyond[a], n, AheadIn(list, at, a))

\* v is what is left, and within the bounds.
Sound(a, v, list, due, beyond, n, at, lost) ==
    /\ v = View(a, list, due, beyond, n, at, lost)
    /\ Contains(list, a) /\ a \notin lost => Due(v, AheadIn(list, at, a))

Lefts == [a \in Alarms |-> Left(a)]

LEMMA LeftIs ==
    ListOK => \A a \in Alarms :
        Left(a) = View(a, alarms, time, rollover, nticks, alarm, astray)
  BY TicksLeftIs DEF Left, Ahead, Listed, View

LEMMA LeftIsNext ==
    ListOK' => \A a \in Alarms :
        Left(a)' = View(a, alarms', time', rollover', nticks', alarm', astray')
<1>1. ListOK' => (\A a \in Alarms :
        Left(a) = View(a, alarms, time, rollover, nticks, alarm, astray))'
  BY LeftIs, PTL
<1> QED  BY <1>1 DEF View

LEMMA Now ==
    ASSUME ClockInv, NEW a \in Alarms
    PROVE  Sound(a, Left(a), alarms, time, rollover, nticks, alarm, astray)
<1>1. Left(a) = View(a, alarms, time, rollover, nticks, alarm, astray)
  BY LeftIs DEF ClockInv
<1> QED  BY <1>1 DEF ClockInv, Punctual, Sound, Ahead, Listed

\* A step is described by what is left for each alarm after it.
LEMMA Maps ==
    ASSUME ListOK', NEW l, l = [a \in Alarms |-> l[a]],
           \A a \in Alarms :
               Sound(a, l[a], alarms', time', rollover', nticks', alarm', astray')
    PROVE  Lefts' = l /\ Punctual'
<1>1. \A a \in Alarms : Left(a)' = l[a]
  BY LeftIsNext DEF Sound
<1>2. Lefts' = l
  BY <1>1 DEF Lefts
<1>3. Punctual'
  BY <1>1 DEF Punctual, Listed, Ahead, Sound
<1> QED  BY <1>2, <1>3

-----------------------------------------------------------------------------
(* The counts.                                                             *)

LEMMA Width == WRAP \in Nat /\ WRAP > 1 /\ HEAD \notin Alarms
  BY ClockAssumption

LEMMA CountTick ==
    ASSUME NEW n \in 0..(WRAP - 1), NEW t \in 0..(WRAP - 1), NEW r \in BOOLEAN,
           Count(t, r, n, FALSE) \in 1..(WRAP - 1)
    PROVE  Count(t, r, (n + 1) % WRAP, TRUE) = Count(t, r, n, FALSE) - 1
<1>1. WRAP \in Nat /\ WRAP > 1
  BY Width
<1>2. CASE n + 1 < WRAP
  <2>1. (n + 1) % WRAP = n + 1
    BY <1>1, <1>2
  <2> QED  BY <1>1, <2>1 DEF Count
<1>3. CASE n + 1 = WRAP
  <2>1. (n + 1) % WRAP = 0
    BY <1>1, <1>3
  <2>2. r
    BY <1>1, <1>3 DEF Count
  <2> QED  BY <1>1, <1>3, <2>1, <2>2 DEF Count
<1>4. n + 1 < WRAP \/ n + 1 = WRAP
  BY <1>1
<1> QED  BY <1>2, <1>3, <1>4

LEMMA OneLess ==
    \A n \in 1..(WRAP - 1) : n > 0 /\ n - 1 \in 0..(WRAP - 1)
<1>1. WRAP \in Nat
  BY Width
<1> QED  BY <1>1

LEMMA DueLater == ASSUME NEW n \in 1..(WRAP - 1), NEW ahead PROVE Due(n, ahead)
<1>1. WRAP \in Nat
  BY Width
<1> QED  BY <1>1 DEF Due

\* Due d ticks from now, maybe beyond the wrap.
LEMMA CountSet ==
    ASSUME NEW n \in 0..(WRAP - 1), NEW d \in 1..(WRAP - 1), NEW ahead
    PROVE  /\ (n + d) % WRAP \in 0..(WRAP - 1)
           /\ Count((n + d) % WRAP, (n + d) % WRAP < n, n, ahead) = d
<1>1. WRAP \in Nat /\ WRAP > 1
  BY Width
<1>2. CASE n + d < WRAP
  <2>1. (n + d) % WRAP = n + d
    BY <1>1, <1>2
  <2> QED  BY <1>1, <1>2, <2>1 DEF Count
<1>3. CASE n + d >= WRAP
  <2>1. (n + d) % WRAP = n + d - WRAP
    BY <1>1, <1>3
  <2>2. n + d - WRAP < n /\ n # 0 /\ n + d - WRAP >= 0
    BY <1>1, <1>3
  <2> QED  BY <1>1, <2>1, <2>2 DEF Count
<1> QED  BY <1>1, <1>2, <1>3

LEMMA DueTimeType ==
    ASSUME ClockTypeOK, NEW k \in Delays
    PROVE  /\ DueTime(k) \in 0..(WRAP - 1) /\ (DueTime(k) < nticks) \in BOOLEAN
           /\ k \in 0..(WRAP - 1)
<1>1. k \in 0..(WRAP - 1) /\ WRAP \in Nat /\ WRAP > 1
  BY ClockAssumption
<1>2. (k + nticks + 1) % WRAP \in 0..(WRAP - 1)
  BY <1>1 DEF ClockTypeOK
<1> QED  BY <1>1, <1>2 DEF DueTime

LEMMA DueTimeIs ==
    ASSUME ClockTypeOK, NEW k \in Delays, k # Longest, NEW ahead
    PROVE  /\ Count(DueTime(k), DueTime(k) < nticks, nticks, ahead) = k + 1
           /\ k + 1 \in 1..(WRAP - 1)
<1>1. k \in 0..(WRAP - 1) /\ WRAP \in Nat
  BY ClockAssumption
<1>2. k + 1 \in 1..(WRAP - 1) /\ k + nticks + 1 = nticks + (k + 1)
  BY <1>1 DEF ClockTypeOK, Longest
<1>3. DueTime(k) = (nticks + (k + 1)) % WRAP
  BY <1>2 DEF DueTime
<1>4. nticks \in 0..(WRAP - 1)
  BY DEF ClockTypeOK
<1> QED  BY <1>2, <1>3, <1>4, CountSet

-----------------------------------------------------------------------------
(* What is left for an alarm, from one list to the next.                   *)

LEMMA Readings ==
    ASSUME NEW a, NEW v, NEW list, NEW due, NEW beyond, NEW n, NEW at, NEW lost,
           Sound(a, v, list, due, beyond, n, at, lost)
    PROVE  /\ v = -1 <=> ~Contains(list, a)
           /\ v = -2 <=> Contains(list, a) /\ a \in lost
           /\ Contains(list, a) /\ a \notin lost =>
                 /\ v = Count(due[a], beyond[a], n, AheadIn(list, at, a))
                 /\ v \in 0..(WRAP - 1) /\ (v = 0 => AheadIn(list, at, a))
<1>1. \A m \in 0..(WRAP - 1) : m # -1 /\ m # -2
  BY Width
<1> QED  BY <1>1 DEF Sound, View, Due

LEMMA SoundOff ==
    ASSUME NEW a, NEW list, NEW due, NEW beyond, NEW n, NEW at, NEW lost,
           ~Contains(list, a)
    PROVE  Sound(a, -1, list, due, beyond, n, at, lost)
  BY DEF Sound, View

LEMMA SoundAstray ==
    ASSUME NEW a, NEW list, NEW due, NEW beyond, NEW n, NEW at, NEW lost,
           Contains(list, a), a \in lost
    PROVE  Sound(a, -2, list, due, beyond, n, at, lost)
  BY DEF Sound, View

\* Nothing has changed for the alarm.
LEMMA SoundAgain ==
    ASSUME NEW a, NEW v, NEW list, NEW due, NEW beyond, NEW n, NEW at, NEW lost,
           Sound(a, v, list, due, beyond, n, at, lost),
           NEW list2, NEW due2, NEW beyond2, NEW at2, NEW lost2,
           Contains(list2, a) <=> Contains(list, a), a \in lost2 <=> a \in lost,
           due2[a] = due[a], beyond2[a] = beyond[a],
           Contains(list, a) => (AheadIn(list2, at2, a) <=> AheadIn(list, at, a))
    PROVE  Sound(a, v, list2, due2, beyond2, n, at2, lost2)
<1>1. CASE ~Contains(list, a)
  BY <1>1 DEF Sound, View
<1>2. CASE Contains(list, a) /\ a \in lost
  BY <1>2 DEF Sound, View
<1>3. CASE Contains(list, a) /\ a \notin lost
  <2>1. AheadIn(list2, at2, a) = AheadIn(list, at, a)
    BY <1>3 DEF AheadIn, NoLater
  <2>2. v = Count(due[a], beyond[a], n, AheadIn(list, at, a))
        /\ Due(v, AheadIn(list, at, a))
    BY <1>3 DEF Sound, View
  <2> QED  BY <1>3, <2>1, <2>2 DEF Sound, View
<1> QED  BY <1>1, <1>2, <1>3

\* The walk may come to the alarm again: behind the wrap it has found all flags.
LEMMA SoundAhead ==
    ASSUME NEW a, NEW v, NEW list, NEW due, NEW beyond, NEW n \in 0..(WRAP - 1), NEW at,
           NEW lost, Sound(a, v, list, due, beyond, n, at, lost),
           NEW list2, NEW at2,
           Contains(list2, a) <=> Contains(list, a), due[a] \in 0..(WRAP - 1),
           beyond[a] \in BOOLEAN, Contains(list, a) => AheadIn(list2, at2, a)
    PROVE  Sound(a, v, list2, due, beyond, n, at2, lost)
<1>1. CASE ~Contains(list, a)
  BY <1>1 DEF Sound, View
<1>2. CASE Contains(list, a) /\ a \in lost
  BY <1>2 DEF Sound, View
<1>3. CASE Contains(list, a) /\ a \notin lost
  <2> DEFINE before == AheadIn(list, at, a)
             after == AheadIn(list2, at2, a)
  <2>1. after = TRUE
    BY <1>3 DEF AheadIn, NoLater
  <2>2. v = Count(due[a], beyond[a], n, before) /\ v \in 0..(WRAP - 1)
    BY <1>3 DEF Sound, View, Due
  <2> HIDE DEF before, after
  <2>3. Count(due[a], beyond[a], n, TRUE) = Count(due[a], beyond[a], n, before)
    BY <2>2, Width DEF Count
  <2>4. v = Count(due[a], beyond[a], n, after) /\ Due(v, after)
    BY <2>1, <2>2, <2>3 DEF Due
  <2> QED  BY <1>3, <2>4 DEF Sound, View, after
<1> QED  BY <1>1, <1>2, <1>3

\* What is left when an alarm is started.
Given(k) == IF k = Longest THEN -2 ELSE k + 1

LEMMA SoundStarted ==
    ASSUME ClockTypeOK, NEW b, NEW k \in Delays, NEW list, NEW due, NEW beyond, NEW at,
           NEW lost, Contains(list, b), b \in lost <=> k = Longest,
           due[b] = DueTime(k), beyond[b] = (DueTime(k) < nticks)
    PROVE  Sound(b, Given(k), list, due, beyond, nticks, at, lost)
<1>1. CASE k = Longest
  BY <1>1, SoundAstray DEF Given
<1>2. CASE k # Longest
  <2> DEFINE ahead == AheadIn(list, at, b)
  <2>1. Count(DueTime(k), DueTime(k) < nticks, nticks, ahead) = k + 1
        /\ k + 1 \in 1..(WRAP - 1)
    BY <1>2, DueTimeIs
  <2>2. Due(k + 1, ahead)
    BY <2>1, DueLater
  <2> QED  BY <1>2, <2>1, <2>2 DEF Sound, View, Given
<1> QED  BY <1>1, <1>2

-----------------------------------------------------------------------------
(* The steps of the clock are steps of the timers.                         *)

\* Where the walk stands outside of the list.
Standing == IF Idle \/ Listed(alarm) THEN HEAD ELSE alarm

LEMMA IsStart ==
    ASSUME NEW a \in Alarms, NEW k \in Delays, Left(a) = -1, Standing = HEAD,
           Standing' = HEAD, Lefts' = [Lefts EXCEPT ![a] = Given(k)]
    PROVE  Promise!Start
  BY DEF Promise!Start, Promise!Started, Promise!Off, Promise!Astray, Lefts, Standing, Given

LEMMA IsStop ==
    ASSUME NEW a \in Alarms, Left(a) # -1, Standing = HEAD, Standing' = HEAD,
           Lefts' = [Lefts EXCEPT ![a] = -1]
    PROVE  Promise!Stop
  BY DEF Promise!Stop, Promise!Stopped, Promise!Off, Lefts, Standing

LEMMA IsTick ==
    ASSUME \A a \in Alarms : Left(a) # 0, Standing = HEAD, Standing' = HEAD,
           Lefts' = [a \in Alarms |-> IF Left(a) > 0 THEN Left(a) - 1 ELSE Left(a)]
    PROVE  Promise!Tick
  BY DEF Promise!Tick, Lefts, Standing

\* What a callback may have done.
CallbackLeaves(l) ==
    \/ l = Lefts
    \/ \E b \in Alarms : l = [Lefts EXCEPT ![b] = -1]
    \/ \E b \in Alarms, k \in Delays : Left(b) = -1 /\ l = [Lefts EXCEPT ![b] = Given(k)]

LEMMA IsCallback ==
    ASSUME NEW l, CallbackLeaves(l) PROVE l \in Promise!Callback(Lefts)
  BY DEF CallbackLeaves, Promise!Callback, Promise!Stopped, Promise!Started, Promise!Off,
         Promise!Astray, Lefts, Given

Rearmed(l, a, r) ==
    IF r = 0 \/ l[a] = -1 THEN [l EXCEPT ![a] = -1]
    ELSE IF l[a] = -2 THEN l ELSE [l EXCEPT ![a] = r]

LEMMA IsCall ==
    ASSUME NEW a \in Alarms, NEW r \in Returns, NEW l, Left(a) \in {0, -2},
           CallbackLeaves(l), Lefts' = Rearmed(l, a, r), Standing = HEAD,
           \/ Standing' = HEAD
           \/ /\ Standing' \in Alarms \ {a}
              /\ Left(Standing') # -1 /\ l[Standing'] = -1
    PROVE  Promise!Call
<1>1. l \in Promise!Callback(Lefts)
  BY IsCallback
<1>2. \A b \in Alarms : Lefts[b] = Left(b)
  BY DEF Lefts
<1>3. Standing' \in {HEAD} \cup {b \in Alarms \ {a} : Lefts[b] # -1 /\ l[b] = -1}
  BY <1>2
<1>4. a \in {b \in Alarms : Lefts[b] \in {0, -2}}
  BY <1>2
<1>5. Lefts' = IF r = 0 \/ l[a] = -1 THEN [l EXCEPT ![a] = -1]
               ELSE IF l[a] = -2 THEN l ELSE [l EXCEPT ![a] = r]
  BY DEF Rearmed
<1>6. \E b \in {b \in Alarms : Lefts[b] \in {0, -2}}, q \in Returns :
          \E m \in Promise!Callback(Lefts) :
              /\ Lefts' = IF q = 0 \/ m[b] = -1 THEN [m EXCEPT ![b] = -1]
                          ELSE IF m[b] = -2 THEN m ELSE [m EXCEPT ![b] = q]
              /\ Standing' \in {HEAD} \cup {d \in Alarms \ {b} : Lefts[d] # -1 /\ m[d] = -1}
  BY <1>1, <1>3, <1>4, <1>5
<1> QED  BY <1>6 DEF Promise!Call, Promise!Stopped, Promise!Off, Promise!Astray,
                     Lefts, Standing

LEMMA IsCallStranded ==
    ASSUME NEW l, CallbackLeaves(l), Standing \in Alarms,
           \/ Lefts' = [l EXCEPT ![Standing] = -1] /\ Standing' = Standing
           \/ /\ l[Standing] # -1
              /\ Lefts' = [l EXCEPT ![Standing] = -2] /\ Standing' = HEAD
    PROVE  Promise!CallStranded
<1>1. l \in Promise!Callback(Lefts) /\ Standing # HEAD
  BY IsCallback, Width
<1>2. \E m \in Promise!Callback(Lefts) :
          \/ Lefts' = [m EXCEPT ![Standing] = -1] /\ Standing' = Standing
          \/ /\ m[Standing] # -1
             /\ Lefts' = [m EXCEPT ![Standing] = -2] /\ Standing' = HEAD
  BY <1>1
<1> QED  BY <1>1, <1>2 DEF Promise!CallStranded, Promise!Stopped, Promise!Off,
                          Promise!Astray, Lefts, Standing

-----------------------------------------------------------------------------
(* Outside of a callback.                                                  *)

LEMMA StartStep ==
    ASSUME ClockInv, NEW a \in Alarms, NEW k \in Delays, AlarmStart(a, k)
    PROVE  ClockInv' /\ Promise!Start
<1> DEFINE l == [Lefts EXCEPT ![a] = Given(k)]
<1>1. /\ Idle /\ ~Listed(a) /\ ~Contains(alarms, a)
      /\ time' = [time EXCEPT ![a] = DueTime(k)]
      /\ rollover' = [rollover EXCEPT ![a] = DueTime(k) < nticks]
      /\ alarms' = Insert(alarms, a) /\ nticks' = nticks /\ alarm' = alarm /\ alarm = HEAD
      /\ astray' = AstrayAfter(a, k)
  BY DEF AlarmStart, Listed, Idle
<1>2. ClockTypeOK /\ ListOK /\ ClockTypeOK'
  BY <1>1, DueTimeType DEF ClockInv, ClockTypeOK
<1>3. /\ alarms' \in Seq(Alarms) /\ Distinct(alarms')
      /\ \A c : Contains(alarms', c) <=> Contains(alarms, c) \/ c = a
  BY <1>1, <1>2, InsertList DEF ListOK
<1>4. ListOK'
  BY <1>1, <1>3 DEF ListOK
<1>5. ASSUME NEW c \in Alarms
      PROVE  Sound(c, l[c], alarms', time', rollover', nticks', alarm', astray')
  <2>1. CASE c = a
    <3>1. l[c] = Given(k) /\ time'[c] = DueTime(k) /\ rollover'[c] = (DueTime(k) < nticks)
          /\ (c \in astray' <=> k = Longest) /\ Contains(alarms', c)
      BY <1>1, <1>2, <1>3, <2>1 DEF Lefts, ClockTypeOK, AstrayAfter
    <3> HIDE DEF l
    <3>2. Sound(c, Given(k), alarms', time', rollover', nticks, alarm', astray')
      BY <1>2, <3>1, SoundStarted
    <3> QED  BY <1>1, <3>1, <3>2
  <2>2. CASE c # a
    <3>1. /\ l[c] = Left(c) /\ time'[c] = time[c] /\ rollover'[c] = rollover[c]
          /\ c \in astray' <=> c \in astray
          /\ Contains(alarms', c) <=> Contains(alarms, c)
      BY <1>1, <1>2, <1>3, <2>2 DEF Lefts, ClockTypeOK, AstrayAfter
    <3>2. AheadIn(alarms', alarm', c) <=> AheadIn(alarms, alarm, c)
      BY <1>1, <1>2, <1>3, AtRest DEF ListOK
    <3>3. Sound(c, Left(c), alarms, time, rollover, nticks, alarm, astray)
      BY Now
    <3> HIDE DEF l
    <3>4. Sound(c, Left(c), alarms', time', rollover', nticks, alarm', astray')
      BY <3>1, <3>2, <3>3, SoundAgain
    <3> QED  BY <1>1, <3>1, <3>4
  <2> QED  BY <2>1, <2>2
<1>6. l = [c \in Alarms |-> l[c]]
  BY DEF Lefts
<1>7. Left(a) = -1 /\ Standing = HEAD /\ Standing' = HEAD
  BY <1>1 DEF Left, Standing, Idle
<1> HIDE DEF l
<1>8. Lefts' = l /\ Punctual'
  BY <1>4, <1>5, <1>6, Maps
<1> QED  BY <1>2, <1>4, <1>7, <1>8, IsStart DEF ClockInv, l

LEMMA StopStep ==
    ASSUME ClockInv, NEW a \in Alarms, AlarmStop(a)
    PROVE  ClockInv' /\ (Promise!Stop \/ (Lefts' = Lefts /\ Standing' = Standing))
<1> DEFINE l == [Lefts EXCEPT ![a] = -1]
<1>1. /\ Idle /\ alarms' = Without(alarms, a) /\ alarm = HEAD
      /\ UNCHANGED <<nticks, time, rollover, alarm, astray>>
  BY DEF AlarmStop, Idle
<1>2. ClockTypeOK /\ ListOK /\ ClockTypeOK'
  BY <1>1 DEF ClockInv, ClockTypeOK
<1>3. /\ alarms' \in Seq(Alarms) /\ Distinct(alarms')
      /\ \A c : Contains(alarms', c) <=> Contains(alarms, c) /\ c # a
  BY <1>1, <1>2, WithoutList DEF ListOK
<1>4. ListOK'
  BY <1>1, <1>3 DEF ListOK
<1>5. ASSUME NEW c \in Alarms
      PROVE  Sound(c, l[c], alarms', time', rollover', nticks', alarm', astray')
  <2>1. l[c] = IF c = a THEN -1 ELSE Left(c)
    BY DEF Lefts
  <2> HIDE DEF l
  <2>2. CASE c = a
    BY <1>3, <2>1, <2>2, SoundOff
  <2>3. CASE c # a
    <3>1. Contains(alarms', c) <=> Contains(alarms, c)
      BY <1>3, <2>3
    <3>2. AheadIn(alarms', alarm', c) <=> AheadIn(alarms, alarm, c)
      BY <1>1, <1>2, <1>3, AtRest DEF ListOK
    <3>3. Sound(c, Left(c), alarms, time, rollover, nticks, alarm, astray)
      BY Now
    <3>4. Sound(c, Left(c), alarms', time', rollover', nticks, alarm', astray')
      BY <1>1, <3>1, <3>2, <3>3, SoundAgain
    <3> QED  BY <1>1, <2>1, <2>3, <3>4
  <2> QED  BY <2>2, <2>3
<1>6. l = [c \in Alarms |-> l[c]]
  BY DEF Lefts
<1>7. Standing = HEAD /\ Standing' = HEAD
  BY <1>1 DEF Standing, Idle
<1> HIDE DEF l
<1>8. Lefts' = l /\ Punctual'
  BY <1>4, <1>5, <1>6, Maps
<1>9. CASE Left(a) = -1
  <2>1. l = Lefts
    BY <1>9 DEF l, Lefts
  <2> QED  BY <1>2, <1>4, <1>7, <1>8, <2>1 DEF ClockInv
<1>10. CASE Left(a) # -1
  BY <1>2, <1>4, <1>7, <1>8, <1>10, IsStop DEF ClockInv, l
<1> QED  BY <1>9, <1>10

LEMMA TickStep ==
    ASSUME ClockInv, TickBegins
    PROVE  ClockInv' /\ Promise!Tick
<1> DEFINE l == [a \in Alarms |-> IF Left(a) > 0 THEN Left(a) - 1 ELSE Left(a)]
<1>1. /\ Idle /\ alarm = HEAD /\ nticks' = (nticks + 1) % WRAP
      /\ UNCHANGED <<alarms, time, rollover, astray>>
      /\ alarm' = IF alarms = << >> THEN HEAD ELSE Head(alarms)
  BY DEF TickBegins, Idle
<1>2. WRAP \in Nat /\ WRAP > 1 /\ ClockTypeOK /\ ListOK
  BY Width DEF ClockInv
<1>3. ClockTypeOK'
  <2>1. (nticks + 1) % WRAP \in 0..(WRAP - 1)
    BY <1>2 DEF ClockTypeOK
  <2> QED  BY <1>1, <1>2, <2>1 DEF ClockTypeOK
<1>4. /\ alarm' = HEAD \/ (alarm' \in Alarms /\ Listed(alarm'))
      /\ \A c : Listed(c) => NoLater(alarms, alarm', c)
  <2>1. CASE alarms = << >>
    BY <1>1, <2>1 DEF Listed, Contains
  <2>2. CASE alarms # << >>
    BY <1>1, <1>2, <2>2, WalkBegins
  <2> QED  BY <2>1, <2>2
<1>5. ListOK'
  BY <1>1, <1>2, <1>4 DEF ListOK
<1>6. ASSUME NEW c \in Alarms
      PROVE  Left(c) # 0 /\ Sound(c, l[c], alarms', time', rollover', nticks', alarm', astray')
  <2>1. Sound(c, Left(c), alarms, time, rollover, nticks, alarm, astray)
    BY Now
  <2>2. l[c] = IF Left(c) > 0 THEN Left(c) - 1 ELSE Left(c)
    OBVIOUS
  <2> HIDE DEF l
  <2>3. CASE ~Listed(c)
    <3>1. Left(c) = -1 /\ l[c] = -1 /\ ~Contains(alarms', c)
      BY <1>1, <2>1, <2>2, <2>3, Readings DEF Listed
    <3> QED  BY <3>1, SoundOff
  <2>4. CASE Listed(c) /\ c \in astray
    <3>1. Left(c) = -2 /\ l[c] = -2 /\ Contains(alarms', c) /\ c \in astray'
      BY <1>1, <2>1, <2>2, <2>4, Readings DEF Listed
    <3> QED  BY <3>1, SoundAstray
  <2>5. CASE Listed(c) /\ c \notin astray
    <3>1. ~AheadIn(alarms, alarm, c)
      BY <1>1, <1>2, AtRest DEF ListOK
    <3>2. AheadIn(alarms, alarm, c) = FALSE
      BY <3>1 DEF AheadIn, NoLater
    <3>3. Left(c) \in 0..(WRAP - 1) /\ Left(c) # 0
          /\ Left(c) = Count(time[c], rollover[c], nticks, AheadIn(alarms, alarm, c))
      BY <2>1, <2>5, <3>1, Readings DEF Listed
    <3>4. Left(c) \in 1..(WRAP - 1) /\ Left(c) = Count(time[c], rollover[c], nticks, FALSE)
      <4>1. Left(c) = Count(time[c], rollover[c], nticks, FALSE)
        BY <3>2, <3>3
      <4>2. Left(c) \in 0..(WRAP - 1) /\ Left(c) # 0
        BY <3>3
      <4>3. Left(c) \in 1..(WRAP - 1)
        BY <1>2, <4>2
      <4> QED  BY <4>1, <4>3
    <3>5. Count(time[c], rollover[c], nticks', TRUE) = Left(c) - 1
      BY <1>1, <1>2, <3>4, CountTick DEF ClockTypeOK
    <3>6. l[c] = Left(c) - 1 /\ l[c] \in 0..(WRAP - 1)
      BY <2>2, <3>4, OneLess
    <3>7. AheadIn(alarms', alarm', c) = TRUE
      BY <1>1, <1>4, <2>5 DEF AheadIn, NoLater
    <3> QED  BY <1>1, <2>5, <3>3, <3>5, <3>6, <3>7 DEF Sound, View, Due, Listed
  <2> QED  BY <2>3, <2>4, <2>5
<1>7. l = [c \in Alarms |-> l[c]]
  OBVIOUS
<1>8. Standing = HEAD /\ Standing' = HEAD
  BY <1>1, <1>4 DEF Standing, Idle, Listed
<1> HIDE DEF l
<1>9. Lefts' = l /\ Punctual'
  BY <1>5, <1>6, <1>7, Maps
<1> QED  BY <1>3, <1>5, <1>6, <1>8, <1>9, IsTick DEF ClockInv, l

LEMMA PassStep ==
    ASSUME ClockInv, Pass
    PROVE  ClockInv' /\ Lefts' = Lefts /\ Standing' = Standing
<1>1. /\ alarm # HEAD /\ ~Expired /\ alarm' = NextOf(alarm)
      /\ rollover' = [rollover EXCEPT ![alarm] = StillBeyond]
      /\ UNCHANGED <<nticks, alarms, time, astray>>
  BY DEF Pass, Idle
<1>2. ClockTypeOK /\ ListOK /\ alarm \in Alarms
  BY <1>1 DEF ClockInv, ListOK
<1>3. ClockTypeOK' /\ ListOK'
  <2>1. StillBeyond \in BOOLEAN
    BY DEF StillBeyond
  <2> QED  BY <1>1, <1>2, <2>1, NextAlarm DEF ClockTypeOK, ListOK
<1>4. \A c \in Alarms \ {alarm} : rollover'[c] = rollover[c]
  BY <1>1, <1>2 DEF ClockTypeOK
<1>5. ASSUME NEW c \in Alarms \ {alarm}
      PROVE  Sound(c, Left(c), alarms', time', rollover', nticks', alarm', astray')
  <2>1. Sound(c, Left(c), alarms, time, rollover, nticks, alarm, astray)
    BY Now
  <2>2. AheadIn(alarms', alarm', c) <=> AheadIn(alarms, alarm, c)
    <3>1. CASE Listed(alarm)
      BY <1>1, <1>2, <3>1, Successor DEF AheadIn, Listed
    <3>2. CASE ~Listed(alarm)
      BY <1>1, <1>2, <3>2, NextAlarm
    <3> QED  BY <3>1, <3>2
  <2>3. Sound(c, Left(c), alarms', time', rollover', nticks, alarm', astray')
    BY <1>1, <1>4, <2>1, <2>2, SoundAgain
  <2> QED  BY <1>1, <2>3
<1>6. Sound(alarm, Left(alarm), alarms', time', rollover', nticks', alarm', astray')
  <2>1. Sound(alarm, Left(alarm), alarms, time, rollover, nticks, alarm, astray)
    BY <1>2, Now
  <2>2. CASE ~Listed(alarm)
    BY <1>1, <2>1, <2>2, SoundOff, Readings DEF Listed
  <2>3. CASE Listed(alarm) /\ alarm \in astray
    BY <1>1, <2>1, <2>3, SoundAstray, Readings DEF Listed
  <2>4. CASE Listed(alarm) /\ alarm \notin astray
    <3>1. AheadIn(alarms, alarm, alarm) = TRUE
      BY <1>2, <2>4, Successor DEF AheadIn, NoLater
    <3>2. Left(alarm) = Count(time[alarm], rollover[alarm], nticks, TRUE)
          /\ Left(alarm) \in 0..(WRAP - 1)
      <4>1. Left(alarm) = Count(time[alarm], rollover[alarm], nticks,
                                AheadIn(alarms, alarm, alarm))
            /\ Left(alarm) \in 0..(WRAP - 1)
        BY <2>1, <2>4, Readings DEF Listed
      <4> QED  BY <3>1, <4>1
    <3>3. rollover'[alarm] = StillBeyond /\ (~(time[alarm] <= nticks) \/ StillBeyond)
          /\ (StillBeyond <=> rollover[alarm] /\ nticks # 0)
      BY <1>1, <1>2 DEF Expired, StillBeyond, ClockTypeOK
    <3>4. Left(alarm) = time[alarm] - nticks + (IF StillBeyond THEN WRAP ELSE 0)
      BY <3>2, <3>3 DEF Count
    <3>5. \A ahead : Count(time'[alarm], rollover'[alarm], nticks', ahead) = Left(alarm)
      BY <1>1, <3>3, <3>4 DEF Count
    <3>6. Left(alarm) # 0
      BY <1>2, <3>3, <3>4, Width DEF ClockTypeOK
    <3> QED  BY <1>1, <2>4, <3>2, <3>5, <3>6 DEF Sound, View, Due, Listed
  <2> QED  BY <2>2, <2>3, <2>4
<1>7. ASSUME NEW c \in Alarms
      PROVE  Sound(c, Lefts[c], alarms', time', rollover', nticks', alarm', astray')
  <2>1. Lefts[c] = Left(c)
    BY DEF Lefts
  <2> QED  BY <1>5, <1>6, <2>1
<1>8. Lefts = [c \in Alarms |-> Lefts[c]]
  BY DEF Lefts
<1>9. Lefts' = Lefts /\ Punctual'
  BY <1>3, <1>7, <1>8, Maps
<1>10. Standing' = Standing
  <2>1. CASE Listed(alarm)
    BY <1>1, <1>2, <2>1, Successor DEF Standing, Idle, Listed
  <2>2. CASE ~Listed(alarm)
    BY <1>1, <1>2, <2>2, NextAlarm DEF Standing, Idle, Listed
  <2> QED  BY <2>1, <2>2
<1> QED  BY <1>3, <1>9, <1>10 DEF ClockInv

-----------------------------------------------------------------------------
(* With a callback, that leaves l for the alarms.                          *)

Fields(list, due, beyond) ==
    /\ list \in Seq(Alarms) /\ Distinct(list)
    /\ due \in [Alarms -> 0..(WRAP - 1)] /\ beyond \in [Alarms -> BOOLEAN]

\* The lists and the fields, as the callback leaves them, for the alarms but
\* the one that is called.
OthersLeft(l, list, due, beyond) ==
    /\ l = [a \in Alarms |-> l[a]]
    /\ \A c \in Alarms \ {alarm} :
           Sound(c, l[c], list, due, beyond, nticks, NextOf(alarm), astray')

\* Of a walk that stands outside of the list all is ahead.
AllAhead(list) == \A c \in Alarms : Contains(list, c) => AheadIn(list, alarm, c)

LEMMA CalledFields ==
    ASSUME ClockInv, NEW r \in Returns, NEW list, NEW due, NEW beyond,
           Fields(list, due, beyond), Called(r, list, due, beyond)
    PROVE  /\ ClockTypeOK' /\ ListOK' /\ alarm \in Alarms /\ alarm' = NextOf(alarm)
           /\ nticks' = nticks
           /\ \A c \in Alarms \ {alarm} : time'[c] = due[c] /\ rollover'[c] = beyond[c]
           /\ r = 0 => alarms' = Without(list, alarm)
           /\ r # 0 => alarms' = list
<1> USE DEF Fields
<1>1. alarm # HEAD /\ alarm \in Alarms /\ alarm' = NextOf(alarm) /\ nticks' = nticks
      /\ ClockTypeOK /\ ListOK
  BY DEF Called, Idle, ClockInv, ListOK
<1>2. NextOf(alarm) = HEAD \/ NextOf(alarm) \in Alarms
  BY <1>1, NextAlarm
<1>3. CASE r = 0
  <2>1. alarms' = Without(list, alarm) /\ time' = due /\ rollover' = beyond
    BY <1>3 DEF Called
  <2>2. alarms' \in Seq(Alarms) /\ Distinct(alarms')
    BY <2>1, WithoutList
  <2> QED  BY <1>1, <1>2, <1>3, <2>1, <2>2 DEF ClockTypeOK, ListOK
<1>4. CASE r # 0
  <2> DEFINE t == (due[alarm] + r) % WRAP
  <2>1. /\ alarms' = list /\ time' = [due EXCEPT ![alarm] = t]
        /\ rollover' = [beyond EXCEPT ![alarm] = beyond[alarm] \/ t < nticks]
    BY <1>1, <1>4 DEF Called, RearmedRollover
  <2>2. t \in 0..(WRAP - 1)
    BY <1>1, Width DEF Returns
  <2> HIDE DEF t
  <2>3. (beyond[alarm] \/ t < nticks) \in BOOLEAN
    OBVIOUS
  <2> QED  BY <1>1, <1>2, <1>4, <2>1, <2>2, <2>3 DEF ClockTypeOK, ListOK
<1> QED  BY <1>3, <1>4

\* The other alarms, when the walk has gone on.
LEMMA CalledOthers ==
    ASSUME ClockInv, NEW r \in Returns, NEW list, NEW due, NEW beyond, NEW l,
           Fields(list, due, beyond), Called(r, list, due, beyond),
           OthersLeft(l, list, due, beyond), NextOf(alarm) = alarm => AllAhead(list),
           NEW c \in Alarms \ {alarm}
    PROVE  Sound(c, l[c], alarms', time', rollover', nticks', alarm', astray')
<1>1. /\ alarm \in Alarms /\ alarm' = NextOf(alarm) /\ nticks' = nticks
      /\ time'[c] = due[c] /\ rollover'[c] = beyond[c]
      /\ r = 0 => alarms' = Without(list, alarm)
      /\ r # 0 => alarms' = list
  BY CalledFields
<1>2. Sound(c, l[c], list, due, beyond, nticks, NextOf(alarm), astray')
  BY DEF OthersLeft
<1>3. CASE r = 0
  <2>1. /\ \A d : Contains(alarms', d) <=> Contains(list, d) /\ d # alarm
        /\ \A d, e : d # alarm /\ e # alarm =>
               (NoLater(alarms', d, e) <=> NoLater(list, d, e))
    BY <1>1, <1>3, WithoutList DEF Fields
  <2>2. ASSUME Contains(list, c)
        PROVE  AheadIn(alarms', alarm', c) <=> AheadIn(list, NextOf(alarm), c)
    <3>1. CASE NextOf(alarm) # alarm
      BY <1>1, <2>1, <3>1 DEF AheadIn
    <3>2. CASE NextOf(alarm) = alarm
      BY <1>1, <2>1, <2>2, <3>2, Width DEF AheadIn, AllAhead
    <3> QED  BY <3>1, <3>2
  <2>3. Sound(c, l[c], alarms', time', rollover', nticks, alarm', astray')
    BY <1>1, <1>2, <2>1, <2>2, SoundAgain
  <2> QED  BY <1>1, <2>3
<1>4. CASE r # 0
  <2>1. Sound(c, l[c], alarms', time', rollover', nticks, alarm', astray')
    BY <1>1, <1>2, <1>4, SoundAgain
  <2> QED  BY <1>1, <2>1
<1> QED  BY <1>3, <1>4

\* An alarm of the list is called.
LEMMA CalledListed ==
    ASSUME ClockInv, NEW r \in Returns, NEW list, NEW due, NEW beyond, NEW l,
           Fields(list, due, beyond), Called(r, list, due, beyond),
           OthersLeft(l, list, due, beyond), Listed(alarm),
           due[alarm] = time[alarm], ~beyond[alarm],
           alarm \in astray' <=> alarm \in astray,
           l[alarm] = IF Contains(list, alarm) THEN Left(alarm) ELSE -1
    PROVE  /\ ClockInv' /\ Left(alarm) \in {0, -2} /\ Lefts' = Rearmed(l, alarm, r)
           /\ Standing = HEAD /\ alarm \in Alarms
           /\ \/ Standing' = HEAD
              \/ /\ Standing' \in Alarms \ {alarm}
                 /\ ~Contains(list, Standing') /\ l[Standing'] = -1
                 /\ Standing' = NextOf(alarm)
<1> DEFINE m == Rearmed(l, alarm, r)
<1>1. /\ ClockTypeOK' /\ ListOK' /\ alarm \in Alarms /\ alarm' = NextOf(alarm)
      /\ nticks' = nticks
      /\ r = 0 => alarms' = Without(list, alarm)
      /\ r # 0 => alarms' = list
  BY CalledFields
<1>2. ClockTypeOK /\ ListOK /\ Expired /\ WRAP \in Nat /\ NextOf(alarm) # alarm /\ alarm # HEAD
  BY Successor, Width DEF ClockInv, Called
<1>3. Left(alarm) = IF alarm \in astray THEN -2 ELSE 0
  <2>1. Sound(alarm, Left(alarm), alarms, time, rollover, nticks, alarm, astray)
    BY <1>1, Now
  <2>2. CASE alarm \in astray
    BY <2>1, <2>2, Readings DEF Listed
  <2>3. CASE alarm \notin astray
    <3>1. AheadIn(alarms, alarm, alarm) = TRUE
      BY <1>2, Successor DEF AheadIn, NoLater
    <3>2. Left(alarm) = Count(time[alarm], rollover[alarm], nticks, TRUE)
          /\ Left(alarm) \in 0..(WRAP - 1)
      <4>1. Left(alarm) = Count(time[alarm], rollover[alarm], nticks,
                                AheadIn(alarms, alarm, alarm))
            /\ Left(alarm) \in 0..(WRAP - 1)
        BY <2>1, <2>3, Readings DEF Listed
      <4> QED  BY <3>1, <4>1
    <3>3. time[alarm] <= nticks /\ ~(rollover[alarm] /\ nticks # 0)
      BY <1>2 DEF Expired, StillBeyond
    <3>4. Left(alarm) = time[alarm] - nticks
      BY <1>1, <1>2, <3>2, <3>3 DEF Count, ClockTypeOK
    <3>5. time[alarm] \in Int /\ nticks \in Int
      BY <1>1, <1>2 DEF ClockTypeOK
    <3>6. Left(alarm) = 0
      <4>1. Left(alarm) \in 0..(WRAP - 1)
        BY <3>2
      <4> QED  BY <1>2, <3>3, <3>4, <3>5, <4>1
    <3> QED  BY <2>3, <3>6
  <2> QED  BY <2>2, <2>3
<1>4. l[alarm] = -1 <=> ~Contains(list, alarm)
  BY <1>3
<1>5. l = [a \in Alarms |-> l[a]]
  BY DEF OthersLeft
<1>6. /\ m = [a \in Alarms |-> m[a]]
      /\ \A c \in Alarms \ {alarm} : m[c] = l[c]
      /\ m[alarm] = IF r = 0 \/ ~Contains(list, alarm) THEN -1
                    ELSE IF alarm \in astray THEN -2 ELSE r
  <2>1. CASE r = 0 \/ l[alarm] = -1
    <3>1. m = [l EXCEPT ![alarm] = -1]
      BY <2>1 DEF Rearmed
    <3> QED  BY <1>1, <1>4, <1>5, <2>1, <3>1
  <2>2. CASE ~(r = 0 \/ l[alarm] = -1) /\ l[alarm] = -2
    <3>1. m = l
      BY <2>2 DEF Rearmed
    <3> QED  BY <1>3, <1>4, <1>5, <2>2, <3>1
  <2>3. CASE ~(r = 0 \/ l[alarm] = -1) /\ l[alarm] # -2
    <3>1. m = [l EXCEPT ![alarm] = r]
      BY <2>3 DEF Rearmed
    <3> QED  BY <1>1, <1>3, <1>4, <1>5, <2>3, <3>1
  <2> QED  BY <2>1, <2>2, <2>3
<1> HIDE DEF m
<1>7. Sound(alarm, m[alarm], alarms', time', rollover', nticks', alarm', astray')
  <2>1. CASE r = 0 \/ ~Contains(list, alarm)
    <3>1. ~Contains(alarms', alarm)
      BY <1>1, <2>1, WithoutList DEF Fields
    <3> QED  BY <1>6, <2>1, <3>1, SoundOff
  <2>2. CASE r # 0 /\ Contains(list, alarm) /\ alarm \in astray
    BY <1>1, <1>6, <2>2, SoundAstray
  <2>3. CASE r # 0 /\ Contains(list, alarm) /\ alarm \notin astray
    <3> DEFINE t == (nticks + r) % WRAP
               ahead == AheadIn(alarms', alarm', alarm)
    <3>1. time[alarm] = nticks
      BY <1>1, <1>2, <1>3, <2>3, Now, Readings, Successor
         DEF AheadIn, Count, ClockTypeOK, Expired, StillBeyond, Listed
    <3>2. time' = [due EXCEPT ![alarm] = t]
          /\ rollover' = [beyond EXCEPT ![alarm] = beyond[alarm] \/ t < nticks]
      BY <1>1, <2>3, <3>1 DEF Called, RearmedRollover, Fields
    <3>3. time'[alarm] = t /\ rollover'[alarm] = (t < nticks)
      BY <1>1, <3>2 DEF Fields
    <3>4. r \in 1..(WRAP - 1) /\ nticks \in 0..(WRAP - 1)
      BY <1>2, <2>3 DEF Returns, ClockTypeOK
    <3>5. Count(t, t < nticks, nticks, ahead) = r
      BY <3>4, CountSet
    <3>6. Due(r, ahead)
      BY <3>4, DueLater
    <3>7. m[alarm] = r /\ Contains(alarms', alarm) /\ alarm \notin astray'
      BY <1>1, <1>6, <2>3
    <3> HIDE DEF t
    <3> QED  BY <1>1, <3>3, <3>5, <3>6, <3>7 DEF Sound, View
  <2> QED  BY <2>1, <2>2, <2>3
<1>8. ASSUME NEW c \in Alarms
      PROVE  Sound(c, m[c], alarms', time', rollover', nticks', alarm', astray')
  BY <1>2, <1>6, <1>7, CalledOthers
<1>9. Lefts' = m /\ Punctual'
  BY <1>1, <1>6, <1>8, Maps
<1>10. Standing = HEAD
  BY DEF Standing
<1>11. ASSUME Standing' # HEAD
       PROVE  /\ Standing' \in Alarms \ {alarm}
              /\ ~Contains(list, Standing') /\ l[Standing'] = -1
              /\ Standing' = NextOf(alarm)
  <2>1. Standing' = NextOf(alarm) /\ NextOf(alarm) \in Alarms /\ ~Contains(alarms', NextOf(alarm))
    BY <1>1, <1>2, <1>11, NextAlarm DEF Standing, Idle, Listed
  <2>2. ~Contains(list, NextOf(alarm))
    BY <1>1, <1>2, <2>1, WithoutList DEF Fields
  <2>3. l[NextOf(alarm)] = -1
    BY <1>2, <2>1, <2>2, Readings DEF OthersLeft
  <2> QED  BY <1>2, <2>1, <2>2, <2>3
<1> QED  BY <1>1, <1>3, <1>9, <1>10, <1>11 DEF ClockInv, m

\* An alarm outside of the list is called.
LEMMA CalledStranded ==
    ASSUME ClockInv, NEW r \in Returns, NEW list, NEW due, NEW beyond, NEW l,
           Fields(list, due, beyond), Called(r, list, due, beyond),
           OthersLeft(l, list, due, beyond), ~Listed(alarm), AllAhead(list),
           Contains(list, alarm) => alarm \in astray' /\ l[alarm] # -1
    PROVE  /\ ClockInv' /\ Standing = alarm /\ alarm \in Alarms
           /\ \/ Lefts' = [l EXCEPT ![alarm] = -1] /\ Standing' = alarm
              \/ /\ l[alarm] # -1
                 /\ Lefts' = [l EXCEPT ![alarm] = -2] /\ Standing' = HEAD
<1> DEFINE m == [l EXCEPT ![alarm] = IF Contains(alarms', alarm) THEN -2 ELSE -1]
<1>1. /\ ClockTypeOK' /\ ListOK' /\ alarm \in Alarms /\ alarm' = NextOf(alarm)
      /\ nticks' = nticks
      /\ r = 0 => alarms' = Without(list, alarm)
      /\ r # 0 => alarms' = list
  BY CalledFields
<1>2. alarm' = alarm /\ alarm # HEAD /\ NextOf(alarm) = alarm
  BY <1>1, NextAlarm, Width DEF ClockInv
<1>3. l = [a \in Alarms |-> l[a]]
  BY DEF OthersLeft
<1>4. Contains(alarms', alarm) => Contains(list, alarm)
  BY <1>1, WithoutList DEF Fields
<1>5. /\ m = [a \in Alarms |-> m[a]]
      /\ \A c \in Alarms \ {alarm} : m[c] = l[c]
      /\ m[alarm] = IF Contains(alarms', alarm) THEN -2 ELSE -1
  BY <1>1, <1>3
<1> HIDE DEF m
<1>6. Sound(alarm, m[alarm], alarms', time', rollover', nticks', alarm', astray')
  BY <1>4, <1>5, SoundOff, SoundAstray
<1>7. ASSUME NEW c \in Alarms
      PROVE  Sound(c, m[c], alarms', time', rollover', nticks', alarm', astray')
  BY <1>5, <1>6, CalledOthers
<1>8. Lefts' = m /\ Punctual'
  BY <1>1, <1>5, <1>7, Maps
<1>9. Standing = alarm /\ Standing' = IF Contains(alarms', alarm) THEN HEAD ELSE alarm
  BY <1>2 DEF Standing, Idle, Listed
<1> QED  BY <1>1, <1>4, <1>8, <1>9 DEF ClockInv, m

\* What the three kinds of callbacks leave for the other alarms.
LEMMA OtherAlarms ==
    ASSUME ClockInv, alarm \in Alarms, NEW c \in Alarms \ {alarm}
    PROVE  Sound(c, Left(c), alarms, time, Cleared, nticks, NextOf(alarm), astray)
<1>1. Sound(c, Left(c), alarms, time, rollover, nticks, alarm, astray)
  BY Now
<1>2. Cleared[c] = rollover[c]
  BY DEF Cleared, ClockInv, ClockTypeOK
<1>3. AheadIn(alarms, NextOf(alarm), c) <=> AheadIn(alarms, alarm, c)
  <2>1. CASE Listed(alarm)
    BY <2>1, Successor DEF AheadIn, Listed, ClockInv
  <2>2. CASE ~Listed(alarm)
    BY <2>2, NextAlarm DEF ClockInv
  <2> QED  BY <2>1, <2>2
<1> QED  BY <1>1, <1>2, <1>3, SoundAgain

LEMMA Calling ==
    ASSUME ClockInv, alarm # HEAD
    PROVE  /\ ClockTypeOK /\ ListOK /\ alarm \in Alarms
           /\ Lefts = [a \in Alarms |-> Lefts[a]]
           /\ \A a \in Alarms : Lefts[a] = Left(a)
           /\ NextOf(alarm) = HEAD \/ NextOf(alarm) \in Alarms
           /\ Cleared \in [Alarms -> BOOLEAN] /\ ~Cleared[alarm]
  BY NextAlarm DEF ClockInv, ListOK, Lefts, Cleared, ClockTypeOK

LEMMA CallStep ==
    ASSUME ClockInv, NEW r \in Returns, Call(r)
    PROVE  ClockInv' /\ (Promise!Call \/ Promise!CallStranded)
<1>1. alarm # HEAD /\ Called(r, alarms, time, Cleared) /\ astray' = astray
  BY DEF Call, Called, Idle
<1>2. Fields(alarms, time, Cleared)
  BY <1>1, Calling DEF ListOK, ClockTypeOK, Fields
<1>3. OthersLeft(Lefts, alarms, time, Cleared)
  BY <1>1, Calling, OtherAlarms DEF OthersLeft
<1>4. CallbackLeaves(Lefts)
  BY DEF CallbackLeaves
<1>5. CASE Listed(alarm)
  <2>1. Lefts[alarm] = IF Contains(alarms, alarm) THEN Left(alarm) ELSE -1
    BY <1>1, <1>5, Calling DEF Listed
  <2>2. /\ ClockInv' /\ Left(alarm) \in {0, -2} /\ Lefts' = Rearmed(Lefts, alarm, r)
        /\ Standing = HEAD /\ alarm \in Alarms
        /\ \/ Standing' = HEAD
           \/ ~Contains(alarms, Standing') /\ Standing' = NextOf(alarm)
              /\ Standing' \in Alarms
    BY <1>1, <1>2, <1>3, <1>5, <2>1, Calling, CalledListed
  <2>3. Standing' = HEAD
    BY <1>5, <2>2, Successor DEF ClockInv, Listed
  <2> QED  BY <1>4, <2>2, <2>3, IsCall
<1>6. CASE ~Listed(alarm)
  <2>1. AllAhead(alarms)
    BY <1>1, <1>6 DEF AllAhead, AheadIn, Listed
  <2>2. /\ ClockInv' /\ Standing = alarm /\ alarm \in Alarms
        /\ \/ Lefts' = [Lefts EXCEPT ![alarm] = -1] /\ Standing' = alarm
           \/ /\ Lefts[alarm] # -1
              /\ Lefts' = [Lefts EXCEPT ![alarm] = -2] /\ Standing' = HEAD
    BY <1>1, <1>2, <1>3, <1>6, <2>1, CalledStranded DEF Listed
  <2> QED  BY <1>4, <2>2, IsCallStranded
<1> QED  BY <1>5, <1>6

LEMMA CallStoppingStep ==
    ASSUME ClockInv, NEW r \in Returns, NEW b \in Alarms, CallStopping(r, b)
    PROVE  ClockInv' /\ (Promise!Call \/ Promise!CallStranded)
<1> DEFINE l == [Lefts EXCEPT ![b] = -1]
           list == Without(alarms, b)
<1>1. alarm # HEAD /\ Called(r, list, time, Cleared) /\ astray' = astray
  BY DEF CallStopping, Called, Idle
<1>2. /\ list \in Seq(Alarms) /\ Distinct(list)
      /\ \A c : Contains(list, c) <=> Contains(alarms, c) /\ c # b
      /\ \A c, d : c # b /\ d # b => (NoLater(list, c, d) <=> NoLater(alarms, c, d))
  BY <1>1, Calling, WithoutList DEF ListOK
<1> HIDE DEF list
<1>3. /\ l = [a \in Alarms |-> l[a]]
      /\ \A c \in Alarms : l[c] = IF c = b THEN -1 ELSE Left(c)
      /\ CallbackLeaves(l)
  BY DEF Lefts, CallbackLeaves
<1> HIDE DEF l
<1>4. ASSUME NEW c \in Alarms \ {alarm}
      PROVE  Sound(c, l[c], list, time, Cleared, nticks, NextOf(alarm), astray')
  <2>1. CASE c = b
    BY <1>2, <1>3, <2>1, SoundOff
  <2>2. CASE c # b
    <3>1. l[c] = Left(c) /\ (Contains(list, c) <=> Contains(alarms, c))
      BY <1>2, <1>3, <2>2
    <3>2. Sound(c, l[c], alarms, time, Cleared, nticks, NextOf(alarm), astray)
      BY <1>1, <3>1, Calling, OtherAlarms
    <3>3. CASE NextOf(alarm) = b
      <4>1. AheadIn(list, NextOf(alarm), c)
        BY <1>2, <3>3, Width DEF AheadIn
      <4>2. time[c] \in 0..(WRAP - 1) /\ Cleared[c] \in BOOLEAN /\ nticks \in 0..(WRAP - 1)
        BY <1>1, Calling DEF ClockTypeOK
      <4>3. Sound(c, l[c], list, time, Cleared, nticks, NextOf(alarm), astray)
        BY <3>1, <3>2, <4>1, <4>2, SoundAhead
      <4> QED  BY <1>1, <4>3
    <3>4. CASE NextOf(alarm) # b
      <4>1. AheadIn(list, NextOf(alarm), c) <=> AheadIn(alarms, NextOf(alarm), c)
        BY <1>2, <2>2, <3>4 DEF AheadIn
      <4> QED  BY <1>1, <3>1, <3>2, <4>1, SoundAgain
    <3> QED  BY <3>3, <3>4
  <2> QED  BY <2>1, <2>2
<1>5. OthersLeft(l, list, time, Cleared)
  BY <1>3, <1>4 DEF OthersLeft
<1>6. Fields(list, time, Cleared)
  BY <1>1, <1>2, Calling DEF ClockTypeOK, Fields
<1>7. CASE Listed(alarm)
  <2>1. l[alarm] = IF Contains(list, alarm) THEN Left(alarm) ELSE -1
    BY <1>1, <1>2, <1>3, <1>7, Calling DEF Listed
  <2>2. /\ ClockInv' /\ Left(alarm) \in {0, -2} /\ Lefts' = Rearmed(l, alarm, r)
        /\ Standing = HEAD /\ alarm \in Alarms
        /\ \/ Standing' = HEAD
           \/ /\ Standing' \in Alarms \ {alarm} /\ l[Standing'] = -1
              /\ Standing' = NextOf(alarm)
    BY <1>1, <1>5, <1>6, <1>7, <2>1, Calling, CalledListed
  <2>3. Standing' \in Alarms => Left(Standing') # -1
    <3>1. ASSUME Standing' \in Alarms PROVE Listed(NextOf(alarm)) /\ Standing' = NextOf(alarm)
      BY <1>7, <2>2, <3>1, Successor, Width DEF ClockInv
    <3> QED  BY <3>1, Now, Readings DEF Listed
  <2> QED  BY <1>3, <2>2, <2>3, IsCall
<1>8. CASE ~Listed(alarm)
  <2>1. AllAhead(list) /\ ~Contains(list, alarm)
    BY <1>1, <1>2, <1>8 DEF AllAhead, AheadIn, Listed
  <2>2. /\ ClockInv' /\ Standing = alarm /\ alarm \in Alarms
        /\ \/ Lefts' = [l EXCEPT ![alarm] = -1] /\ Standing' = alarm
           \/ /\ l[alarm] # -1
              /\ Lefts' = [l EXCEPT ![alarm] = -2] /\ Standing' = HEAD
    BY <1>1, <1>5, <1>6, <1>8, <2>1, CalledStranded
  <2> QED  BY <1>3, <2>2, IsCallStranded
<1> QED  BY <1>7, <1>8

LEMMA CallStartingStep ==
    ASSUME ClockInv, NEW r \in Returns, NEW b \in Alarms, NEW k \in Delays,
           CallStarting(r, b, k)
    PROVE  ClockInv' /\ (Promise!Call \/ Promise!CallStranded)
<1> DEFINE l == [Lefts EXCEPT ![b] = Given(k)]
           list == Insert(alarms, b)
           due == [time EXCEPT ![b] = DueTime(k)]
           beyond == [Cleared EXCEPT ![b] = DueTime(k) < nticks]
<1>1. /\ ~Contains(alarms, b) /\ alarm # HEAD /\ Called(r, list, due, beyond)
      /\ astray' = IF b = alarm THEN astray \cup {b} ELSE AstrayAfter(b, k)
  BY DEF CallStarting, Called, Idle, Listed
<1>2. /\ ListOK /\ ClockTypeOK /\ alarm \in Alarms
      /\ NextOf(alarm) = b => ~Listed(alarm) /\ b = alarm
  BY <1>1, Calling, Successor, NextAlarm, Width DEF Listed
<1>3. /\ list \in Seq(Alarms) /\ Distinct(list)
      /\ \A c : Contains(list, c) <=> Contains(alarms, c) \/ c = b
      /\ \A c, d : c # b /\ d # b => (NoLater(list, c, d) <=> NoLater(alarms, c, d))
      /\ \A c : Contains(list, c) => NoLater(list, b, c)
  BY <1>1, <1>2, InsertList DEF ListOK
<1>4. /\ due \in [Alarms -> 0..(WRAP - 1)] /\ beyond \in [Alarms -> BOOLEAN]
      /\ \A c \in Alarms : /\ due[c] = IF c = b THEN DueTime(k) ELSE time[c]
                           /\ beyond[c] = IF c = b THEN DueTime(k) < nticks ELSE Cleared[c]
  BY <1>1, <1>2, Calling, DueTimeType DEF ClockTypeOK
<1>5. Left(b) = -1
  BY <1>1, Now, Readings
<1>6. /\ l = [a \in Alarms |-> l[a]]
      /\ \A c \in Alarms : l[c] = IF c = b THEN Given(k) ELSE Left(c)
      /\ CallbackLeaves(l)
  BY <1>5 DEF Lefts, CallbackLeaves
<1> HIDE DEF l, list, due, beyond
<1>7. ASSUME NEW c \in Alarms \ {alarm}
      PROVE  Sound(c, l[c], list, due, beyond, nticks, NextOf(alarm), astray')
  <2>1. CASE c = b
    <3>1. /\ l[c] = Given(k) /\ Contains(list, c) /\ (c \in astray' <=> k = Longest)
          /\ due[c] = DueTime(k) /\ beyond[c] = (DueTime(k) < nticks)
      BY <1>1, <1>3, <1>4, <1>6, <2>1 DEF AstrayAfter
    <3> QED  BY <1>2, <3>1, SoundStarted
  <2>2. CASE c # b
    <3>1. /\ l[c] = Left(c) /\ (Contains(list, c) <=> Contains(alarms, c))
          /\ due[c] = time[c] /\ beyond[c] = Cleared[c] /\ (c \in astray' <=> c \in astray)
      BY <1>1, <1>3, <1>4, <1>6, <2>2 DEF AstrayAfter
    <3>2. Sound(c, l[c], alarms, time, Cleared, nticks, NextOf(alarm), astray)
      BY <1>2, <3>1, OtherAlarms
    <3>3. ASSUME Contains(alarms, c)
          PROVE  AheadIn(list, NextOf(alarm), c) <=> AheadIn(alarms, NextOf(alarm), c)
      <4>1. CASE NextOf(alarm) = b
        <5>1. AheadIn(list, b, c)
          BY <1>3, <3>3 DEF AheadIn
        <5>2. AheadIn(alarms, b, c)
          BY <1>1, <1>2, <4>1 DEF AheadIn
        <5> QED  BY <4>1, <5>1, <5>2
      <4>2. CASE NextOf(alarm) # b
        BY <1>3, <2>2, <4>2 DEF AheadIn
      <4> QED  BY <4>1, <4>2
    <3> QED  BY <3>1, <3>2, <3>3, SoundAgain
  <2> QED  BY <2>1, <2>2
<1>8. OthersLeft(l, list, due, beyond)
  BY <1>6, <1>7 DEF OthersLeft
<1>9. Fields(list, due, beyond)
  BY <1>3, <1>4 DEF Fields
<1>10. CASE Listed(alarm)
  <2>1. /\ l[alarm] = IF Contains(list, alarm) THEN Left(alarm) ELSE -1
        /\ due[alarm] = time[alarm] /\ ~beyond[alarm]
        /\ alarm \in astray' <=> alarm \in astray
    BY <1>1, <1>2, <1>3, <1>4, <1>6, <1>10, Calling DEF Listed, AstrayAfter
  <2>2. /\ ClockInv' /\ Left(alarm) \in {0, -2} /\ Lefts' = Rearmed(l, alarm, r)
        /\ Standing = HEAD
        /\ \/ Standing' = HEAD
           \/ /\ ~Contains(list, Standing') /\ Standing' = NextOf(alarm)
              /\ Standing' \in Alarms
    BY <1>1, <1>8, <1>9, <1>10, <2>1, CalledListed
  <2>3. Standing' = HEAD
    BY <1>2, <1>3, <1>10, <2>2, Successor DEF Listed
  <2> QED  BY <1>2, <1>6, <2>2, <2>3, IsCall
<1>11. CASE ~Listed(alarm)
  <2>1. AllAhead(list)
    <3>1. CASE alarm = b
      BY <1>3, <3>1 DEF AllAhead, AheadIn
    <3>2. CASE alarm # b
      BY <1>1, <1>3, <1>11, <3>2 DEF AllAhead, AheadIn, Listed
    <3> QED  BY <3>1, <3>2
  <2>2. Contains(list, alarm) => alarm \in astray' /\ l[alarm] # -1
    <3>1. Given(k) # -1
      BY <1>2, DueTimeType, Width DEF Given
    <3> QED  BY <1>1, <1>2, <1>3, <1>6, <1>11, <3>1 DEF Listed
  <2>3. /\ ClockInv' /\ Standing = alarm
        /\ \/ Lefts' = [l EXCEPT ![alarm] = -1] /\ Standing' = alarm
           \/ /\ l[alarm] # -1
              /\ Lefts' = [l EXCEPT ![alarm] = -2] /\ Standing' = HEAD
    BY <1>1, <1>8, <1>9, <1>11, <2>1, <2>2, CalledStranded
  <2> QED  BY <1>2, <1>6, <2>3, IsCallStranded
<1> QED  BY <1>10, <1>11

LEMMA ClockStart == ClockInit => ClockInv /\ Promise!TimersInit
<1> SUFFICES ASSUME ClockInit PROVE ClockInv /\ Promise!TimersInit
  OBVIOUS
<1>1. WRAP \in Nat /\ WRAP > 1
  BY Width
<1>2. alarms = << >> /\ \A a : ~Listed(a)
  BY DEF ClockInit, Listed, Contains
<1>3. ClockTypeOK
  BY <1>1 DEF ClockInit, ClockTypeOK
<1>4. ListOK
  BY <1>2 DEF ClockInit, ListOK, Distinct
<1>5. Punctual
  BY <1>2 DEF Punctual
<1>6. \A a : Left(a) = -1
  BY <1>2 DEF Left
<1>7. Promise!TimersInit
  BY <1>6 DEF Promise!TimersInit, Promise!Off, ClockInit, Idle
<1> QED  BY <1>3, <1>4, <1>5, <1>7 DEF ClockInv

LEMMA ClockStep ==
    ClockInv /\ [ClockNext]_clockVars =>
        ClockInv' /\ (Promise!TimersNext \/ (Lefts' = Lefts /\ Standing' = Standing))
<1> SUFFICES ASSUME ClockInv, [ClockNext]_clockVars
             PROVE  ClockInv' /\ (Promise!TimersNext \/ (Lefts' = Lefts /\ Standing' = Standing))
  OBVIOUS
<1> USE DEF Promise!TimersNext
<1>1. CASE TickBegins
  BY <1>1, TickStep
<1>2. ASSUME NEW a \in Alarms, AlarmStop(a)
      PROVE  ClockInv' /\ (Promise!Stop \/ (Lefts' = Lefts /\ Standing' = Standing))
  BY <1>2, StopStep
<1>3. ASSUME NEW a \in Alarms, NEW n \in Delays, AlarmStart(a, n)
      PROVE  ClockInv' /\ Promise!Start
  BY <1>3, StartStep
<1>4. CASE Pass
  BY <1>4, PassStep
<1>5. ASSUME NEW r \in Returns,
             \/ Call(r)
             \/ \E b \in Alarms : CallStopping(r, b)
             \/ \E b \in Alarms, n \in Delays : CallStarting(r, b, n)
      PROVE  ClockInv' /\ (Promise!Call \/ Promise!CallStranded)
  BY <1>5, CallStep, CallStoppingStep, CallStartingStep
<1>6. CASE UNCHANGED clockVars
  <2>1. UNCHANGED <<nticks, alarms, time, rollover, alarm, astray>>
    BY <1>6 DEF clockVars
  <2>2. ClockTypeOK' /\ ListOK'
    BY <2>1 DEF ClockInv, ClockTypeOK, ListOK
  <2>3. ASSUME NEW c \in Alarms
        PROVE  Sound(c, Lefts[c], alarms', time', rollover', nticks', alarm', astray')
    BY <2>1, Now DEF Lefts
  <2>4. Lefts = [c \in Alarms |-> Lefts[c]]
    BY DEF Lefts
  <2>5. Lefts' = Lefts /\ Punctual'
    BY <2>2, <2>3, <2>4, Maps
  <2>6. Standing' = Standing
    BY <2>1 DEF Standing, Idle, Listed
  <2> QED  BY <2>2, <2>5, <2>6 DEF ClockInv
<1> QED  BY <1>1, <1>2, <1>3, <1>4, <1>5, <1>6 DEF ClockNext

\* For any set of alarms, any width of the counter and any delays it can hold:
\* every alarm of the list is called in the tick it was set to, in no other
\* and once, across any number of wraps, also when callbacks start, stop and
\* rearm alarms while alt_tick walks the list.  Only the longest delay, and an
\* alarm that a callback stops when alt_tick has read it as the next, are not
\* kept, and neither costs another alarm its tick (alt_tick.c:87-148,
\* alt_alarm_start.c:64-108).
THEOREM AlarmsInTime == ClockSpec => ImplementsTimers
<1>1. ClockInit => ClockInv /\ Promise!TimersInit
  BY ClockStart
<1>2. ClockInv /\ [ClockNext]_clockVars => ClockInv'
  BY ClockStep
<1>3. Lefts' = Lefts /\ Standing' = Standing =>
          UNCHANGED <<[a \in Alarms |-> Left(a)],
                      IF Idle \/ Listed(alarm) THEN HEAD ELSE alarm>>
  BY DEF Lefts, Standing
<1>4. ClockInv /\ [ClockNext]_clockVars =>
          [Promise!TimersNext]_<<[a \in Alarms |-> Left(a)],
                                 IF Idle \/ Listed(alarm) THEN HEAD ELSE alarm>>
  BY <1>3, ClockStep
<1> QED  BY <1>1, <1>2, <1>4, PTL
         DEF ClockSpec, ImplementsTimers, Promise!TimersSpec, Promise!timerVars
===============================================================================
