----------------------------- MODULE JtagChannel -----------------------------
(***************************************************************************)
(* What read() and write() on the JTAG UART promise: one bounded queue of  *)
(* bytes in each direction.  A call moves its bytes in one piece or in     *)
(* several, and returns how many it moved; nothing is lost, repeated or    *)
(* overtaken on the way.  JtagUart.tla implements this specification.      *)
(***************************************************************************)
EXTENDS Integers, Sequences

CONSTANTS Bytes,
          MaxCount,         \* a call moves at most MaxCount bytes
          Capacity,         \* bytes under way in one direction
          EWOULDBLOCK, EIO  \* results of calls that moved nothing

Strings == UNION {[1 .. k -> Bytes] : k \in 0 .. MaxCount}

VARIABLES toHost, fromHost,     \* bytes under way
          op,                   \* "read" or "write" in progress, or "none"
          buffer,               \* the bytes to write, or read so far
          space,                \* the bytes still to move
          ret                   \* what the last call returned, 0 in a call

vars == <<toHost, fromHost, op, buffer, space, ret>>

Prefix(s, k) == SubSeq(s, 1, k)
Rest(s, k)   == SubSeq(s, k + 1, Len(s))

Init == /\ toHost = << >> /\ fromHost = << >> /\ op = "none"
        /\ buffer = << >> /\ space = 0 /\ ret = 0

StartWrite == /\ op = "none" /\ op' = "write"
              /\ buffer' \in Strings /\ space' = Len(buffer') /\ ret' = 0
              /\ UNCHANGED <<toHost, fromHost>>

StartRead == /\ op = "none" /\ op' = "read"
             /\ buffer' = << >> /\ space' \in 0 .. MaxCount /\ ret' = 0
             /\ UNCHANGED <<toHost, fromHost>>

\* A piece of the bytes that are left follows what is under way.
Put(k) == /\ op = "write" /\ k <= space /\ Len(toHost) + k <= Capacity
          /\ toHost' = toHost \o Prefix(Rest(buffer, Len(buffer) - space), k)
          /\ space' = space - k
          /\ UNCHANGED <<fromHost, op, buffer, ret>>

\* The oldest bytes under way reach the caller.
Get(k) == /\ op = "read" /\ k <= space /\ k <= Len(fromHost)
          /\ buffer' = buffer \o Prefix(fromHost, k)
          /\ fromHost' = Rest(fromHost, k)
          /\ space' = space - k
          /\ UNCHANGED <<toHost, op, ret>>

ReturnWrite == /\ op = "write" /\ op' = "none"
               /\ IF space < Len(buffer) THEN ret' = Len(buffer) - space
                                         ELSE ret' \in {EWOULDBLOCK, EIO}
               /\ buffer' = << >> /\ space' = 0
               /\ UNCHANGED <<toHost, fromHost>>

ReturnRead == /\ op = "read" /\ op' = "none"
              /\ IF buffer # << >> THEN ret' = Len(buffer)
                                   ELSE ret' \in {EWOULDBLOCK, EIO}
              /\ buffer' = << >> /\ space' = 0
              /\ UNCHANGED <<toHost, fromHost>>

Close == /\ op = "none" /\ ret' \in {0, EWOULDBLOCK}
         /\ UNCHANGED <<toHost, fromHost, op, buffer, space>>

HostTakes == /\ toHost # << >> /\ toHost' = Tail(toHost)
             /\ UNCHANGED <<fromHost, op, buffer, space, ret>>

HostSends == /\ Len(fromHost) < Capacity
             /\ \E b \in Bytes : fromHost' = Append(fromHost, b)
             /\ UNCHANGED <<toHost, op, buffer, space, ret>>

Next == \/ StartWrite \/ StartRead \/ ReturnWrite \/ ReturnRead \/ Close
        \/ \E k \in 1 .. MaxCount : Put(k) \/ Get(k)
        \/ HostTakes \/ HostSends

Spec == Init /\ [][Next]_vars
==============================================================================
