-------------------------------- MODULE Basics --------------------------------
(***************************************************************************)
(* The table of basic operations (basics.c): the routine of each name, its *)
(* form for two arguments and the property letter the transformers look    *)
(* at.  The names are those of the Nial operations.                        *)
(***************************************************************************)
EXTENDS Sorting, Comparisons

ReductiveOps == {"sum", "product", "and", "or", "xor", "max", "min"}
CalculusOps  == {"plus", "minus", "times", "divide", "power", "quotient", "mod",
                 "lt", "lte", "gt", "gte", "match", "mate"}
BinaryOps    == {"raise", "except", "append", "choose", "findall", "hitch", "pick", "reach", "reshape",
                 "seek", "find", "in", "sublist", "take", "drop", "cutall", "cut", "up"}
PervasiveOps == {"abs", "floor", "ceiling", "opposite", "reciprocal", "char", "charrep", "not", "type"}
UnaryOps     == {"shape", "first", "second", "third", "solitary", "rest", "list", "single", "link", "content",
                 "cart", "gage", "tell", "grid", "pack", "mix", "transpose", "reverse", "simple", "atomic",
                 "valence", "tally", "empty", "cull", "diverse", "allequal", "pair", "acc_xor", "pass", "void",
                 "isboolean", "isinteger", "isreal", "ischar", "isphrase", "isfault", "isstring", "numeric",
                 "allbools", "allints", "allreals", "allchars", "allnumeric"}

\* Mutant: hitch has the letter of a pervasive operation.
propOfHitch(f) == IF f = "hitch" THEN "C" ELSE IF f \in ReductiveOps THEN "R"
                  ELSE IF f \in CalculusOps THEN "C" ELSE IF f \in BinaryOps THEN "B"
                  ELSE IF f \in PervasiveOps THEN "P" ELSE "U"
\* init_primname: the letter of each name.
prop(f) == CASE f \in ReductiveOps -> "R"
             [] f \in CalculusOps  -> "C"
             [] f \in BinaryOps    -> "B"
             [] f \in PervasiveOps -> "P"
             [] OTHER -> "U"

\* The routines of two arguments.
Dyadic(f, x, y) ==
  CASE f \in {"plus", "sum"} -> plus(x, y)
    [] f = "minus" -> minus(x, y)
    [] f \in {"times", "product"} -> times(x, y)
    [] f \in {"divide", "quotient", "mod"} -> Arith(f, x, y)
    [] f = "power" -> power(x, y)
    [] f = "gt"  -> gt(x, y)
    [] f = "gte" -> gte(x, y)
    [] f \in {"lt", "lte", "mate", "match", "and", "or", "xor", "max", "min"} -> Pervade(f, x, y)
    [] f = "raise"   -> raise(x, y)
    [] f = "except"  -> except(x, y, 4)
    [] f = "append"  -> append(x, y)
    [] f = "choose"  -> b_choose(x, y)
    [] f = "findall" -> findall(x, y)
    [] f = "hitch"   -> hitch(x, y)
    [] f = "pick"    -> b_pick(x, y)
    [] f = "reach"   -> b_reach(x, y)
    [] f = "reshape" -> reshape(x, y)
    [] f = "seek"    -> nseek(x, y)
    [] f = "find"    -> find(x, y)
    [] f = "in"      -> in(x, y)
    [] f = "sublist" -> sublist(x, y)
    [] f = "take"    -> take(x, y)
    [] f = "drop"    -> drop(x, y)
    [] f = "cutall"  -> cutall(x, y)
    [] f = "cut"     -> cut(x, y)
    [] f = "up"      -> b_up(x, y)

\* The routines of one argument.
Monadic(f, x) ==
  CASE f \in {"and", "or", "xor", "max", "min"} -> Gathered(f, x)
    [] f = "sum"     -> sum(x)
    [] f = "product" -> product(x)
    [] f = "abs"     -> abs(x)
    [] f = "floor"   -> floor(x)
    [] f = "ceiling" -> ceiling(x)
    [] f = "opposite"   -> opposite(x)
    [] f = "reciprocal" -> reciprocal(x)
    [] f = "char"    -> char(x)
    [] f = "charrep" -> charrep(x)
    [] f = "not"     -> not(x)
    [] f = "type"    -> type(x)
    [] f = "shape"   -> shape(x)
    [] f = "first"   -> first(x)
    [] f = "second"  -> second(x)
    [] f = "third"   -> third(x)
    [] f = "solitary" -> nial_solitary(x)
    [] f = "rest"    -> rest(x)
    [] f = "list"    -> list(x)
    [] f = "single"  -> single(x)
    [] f = "link"    -> link(x)
    [] f = "content" -> content(x)
    [] f = "cart"    -> cart(x)
    [] f = "gage"    -> gage(x)
    [] f = "tell"    -> tell(x)
    [] f = "grid"    -> grid(x)
    [] f = "pack"    -> pack(x)
    [] f = "mix"     -> mix(x)
    [] f = "transpose" -> transpose(x)
    [] f = "reverse" -> reverse(x)
    [] f = "simple"  -> issimple(x)
    [] f = "atomic"  -> isatomic(x)
    [] f = "valence" -> valenceOf(x)
    [] f = "tally"   -> tallyOf(x)
    [] f = "empty"   -> isempty(x)
    [] f = "cull"    -> cull(x)
    [] f = "diverse" -> diverse(x)
    [] f = "allequal" -> allEqual(x)
    [] f = "pair"    -> pairOf(x)
    [] f = "acc_xor" -> acc_xor(x)
    [] f = "pass"    -> pass(x)
    [] f = "void"    -> void(x)
    [] f = "isboolean" -> isboolean(x)
    [] f = "isinteger" -> isinteger(x)
    [] f = "isreal"    -> isreal(x)
    [] f = "ischar"    -> ischar(x)
    [] f = "isphrase"  -> isphrase(x)
    [] f = "isfault"   -> isfault(x)
    [] f = "isstring"  -> createbool(isstring(x))
    [] f = "numeric"   -> isnumeric(x)
    [] f = "allbools"  -> allbools(x)
    [] f = "allints"   -> allints(x)
    [] f = "allreals"  -> allreals(x)
    [] f = "allchars"  -> allchars(x)
    [] f = "allnumeric" -> allnumeric(x)

\* applytab: the routine called with one array, whatever the name's letter.
applyBasic(f, z) ==
  LET Two(x, y) == Dyadic(f, x, y)
  IN  IF f \in {"gt", "gte", "lt", "lte", "mate", "match"} \cup CalculusOps /\ z.kind = faulttype THEN z
      ELSE IF f \in CalculusOps \cup BinaryOps THEN OfPair(Two, z)
      ELSE Monadic(f, z)

\* A call through the table: of the routine of one argument, or of two.
called(f, args) ==
  LET x == args[1]
  IN  IF Len(args) = 1 THEN applyBasic(f, x) ELSE Dyadic(f, x, args[2])
===============================================================================
