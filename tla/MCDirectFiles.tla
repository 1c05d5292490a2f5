---------------------------- MODULE MCDirectFiles ---------------------------
(***************************************************************************)
(* The instance for TLC, with the form of an array in a record file, which *)
(* is nested as the array is.                                              *)
(***************************************************************************)
EXTENDS DirectFiles

RECURSIVE BlockArray(_)
BlockArray(x) ==
  LET t == Len(x.els) IN
  <<x.kind, Len(x.sh), t>> \o x.sh \o
    (CASE x.kind = atype      -> FlattenSeq([k \in 1 .. t |-> BlockArray(x.els[k])])
       [] x.kind = phrasetype -> <<t + 1>> \o x.els \o <<0>>
       [] OTHER               -> <<t>> \o x.els)

\* The array that starts at position "at", and the position after it.
RECURSIVE UnblockArray(_, _)
UnblockArray(w, at) ==
  LET k == w[at + 1]  v == w[at + 2]  t == w[at + 3]
      data == at + 3 + v
      n    == w[data + 1]
  IN
  IF k = atype
  THEN LET items[j \in 0 .. t] ==
             IF j = 0 THEN [xs |-> <<>>, next |-> data]
             ELSE LET u == UnblockArray(w, items[j - 1].next)
                  IN  [xs |-> Append(items[j - 1].xs, u.x), next |-> u.next]
       IN  [x |-> [kind |-> k, sh |-> SubSeq(w, at + 4, data), els |-> items[t].xs],
            next |-> items[t].next]
  ELSE [x |-> [kind |-> k, sh |-> SubSeq(w, at + 4, data),
               els |-> SubSeq(w, data + 2, data + (IF k = phrasetype THEN n ELSE n + 1))],
        next |-> data + 1 + n]

MCRecords == {<<>>, <<11>>, <<21, 22>>}
MCNumberLists == {<<0>>, <<1, 0>>}
MCArrays  == {[kind |-> inttype, sh |-> <<2>>, els |-> <<5, 6>>],
              [kind |-> atype, sh |-> <<1>>, els |-> <<[kind |-> phrasetype, sh |-> <<>>, els |-> <<8>>]>>]}
=============================================================================
