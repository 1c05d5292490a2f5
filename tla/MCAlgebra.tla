------------------------------ MODULE MCAlgebra ------------------------------
EXTENDS Algebra

I(n) == createint(n)
B(b) == createbool(b)
MCLiterals ==
  {I(1), I(-4), B(TRUE), createchar(1), Atom(phrasetype, 1), Address, Null,
   Ints(<<1, 0>>), Ints(<<1, 0, 1>>), mklist(<<B(TRUE), B(FALSE)>>), mklist(<<I(2), createreal(1)>>),
   mklist(<<Ints(<<1, 0>>), I(1)>>), new_create_array(inttype, <<2, 2>>, <<Cell(2), Cell(0), Cell(1), Cell(0)>>),
   single(Ints(<<1, 0>>))}
MCOnes == UnaryOps \cup PervasiveOps \cup ReductiveOps
MCTwos == BinaryOps \cup CalculusOps
MCAgain == {"findall", "find", "except", "cull", "sublist", "append", "up"}
MCUnder == {"minus", "max", "lt", "hitch", "sum", "reverse", "not"}
===============================================================================
