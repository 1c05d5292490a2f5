----------------------------- MODULE MCArrayStore -----------------------------
(* Small arrays for ArrayStore: atoms, lists, a list of lists and a matrix.   *)
EXTENDS ArrayStore
I(n)     == createint(n)
MCLiterals     == {I(2), nial_solitary(Ints(<<0, 1>>)), reshapeTo(<<2, 1>>, I(0))}
MCAddresses    == {I(0)}
MCPaths        == {Ints(<<0, 1>>)}
MCAddressLists == {Ints(<<1, 7>>)}
MCSlices       == {mklist(<<Nullexpr, I(0)>>), mklist(<<I(1), Nullexpr>>)}
MCStoredPairs  == {mklist(<<Ints(<<2, 0>>), Ints(<<0>>)>>),
                   mklist(<<Ints(<<2, 0>>), nial_solitary(Ints(<<0>>))>>)}
===============================================================================
