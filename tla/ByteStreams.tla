----------------------------- MODULE ByteStreams ----------------------------
(***************************************************************************)
(* What the buffered streams of SPROCESS promise, without their buffers: a *)
(* table of queues of bytes.  A step puts bytes behind one of them, takes  *)
(* bytes from the front of one, or opens and closes some.                  *)
(***************************************************************************)
EXTENDS SequencesExt

CONSTANTS
  Streams,    \* the indices of the table
  Closed      \* what an index without a stream has

VARIABLE bytes

BInit == bytes \in [Streams -> {Closed, <<>>}]

Put(s)  == /\ bytes[s] # Closed
           /\ bytes'[s] # Closed /\ bytes'[s] # bytes[s]
           /\ IsPrefix(bytes[s], bytes'[s])
Take(s) == /\ bytes[s] # Closed
           /\ bytes'[s] # Closed /\ bytes'[s] # bytes[s]
           /\ IsSuffix(bytes'[s], bytes[s])

\* A new stream has nothing in it, whoever had its index before.
Renew == \A s \in Streams : bytes'[s] \in {bytes[s], Closed, <<>>}

BNext ==
  /\ DOMAIN bytes' = Streams
  /\ \/ Renew
     \/ \E s \in Streams : /\ \A t \in Streams \ {s} : bytes'[t] = bytes[t]
                           /\ Put(s) \/ Take(s)

BSpec == BInit /\ [][BNext]_bytes
=============================================================================
