------------------------------- MODULE Evaluator -------------------------------
(***************************************************************************)
(* The control of eval.c: how a line is evaluated (ieval), how operations  *)
(* and transformers are entered and left (apply, prologue, epilogue), how  *)
(* an operation passed as an argument carries its environment with it      *)
(* (b_closure, setup_env, restore_env), and the two ways out of the middle:*)
(* throw, a longjmp to the innermost CATCH, and an error, a longjmp to the *)
(* top level.  debugging_on is set: named operations get an entry on the   *)
(* call stack, and a fault in one of them starts the fault loop.           *)
(*                                                                         *)
(* Each operation has a symbol table of its own; an environment is the list*)
(* of the tables of the operations it is nested in, innermost first, and   *)
(* current_env is here the operation whose environment it is.  The local   *)
(* names of a table are on the Nial stack, at its stack pointer.  A frame  *)
(* is what a C function keeps in its local variables while it waits for    *)
(* the ones it has called; its position is its address.  Its floor is the  *)
(* height of the stack below its temporaries; its entry, history, is the   *)
(* height when it was called, with the argument on top.                    *)
(***************************************************************************)
EXTENDS Integers, Sequences, FiniteSets

CONSTANTS
  Ops,            \* user-defined operations and transformers
  Env,            \* of each, the operations it is nested in, itself first
  Tr,             \* the transformers: they have an operation as argument
  Anonymous,      \* operation forms without a name
  Null,           \* the environment of the top level
  NestingMax,     \* bound: nesting, not counting names and closures
  TempMax,        \* bound: temporaries on the stack in one evaluation
  RefMax,         \* bound: references to an environment
  JumpsMax        \* bound: throws and errors

ASSUME EvaluatorConstants ==
  /\ \A o \in Ops : /\ Env[o] \in Seq(Ops) /\ Len(Env[o]) > 0 /\ Env[o][1] = o
                    /\ Len(Env[o]) > 1 => Tail(Env[o]) = Env[Env[o][2]]
  /\ Tr \subseteq Ops /\ Anonymous \subseteq Ops \ Tr
  /\ Null \notin Ops

VARIABLES
  status,         \* "ok", or "undefined": what follows is not C
  frames,         \* the C stack
  stk,            \* the Nial stack: a saved stack pointer, or Val
  sp,             \* the stack pointer of each symbol table
  current_env,
  call_stack_pointer,
  ct_current_jmp_buf,  \* a position of frames, 0 for NULL
  envref,         \* the reference count of each environment
  triggered,
  thrown,         \* history: a throw has left an operation, "no", "line" (in
                  \* this line) or "before"
  abandoned,      \* history: an error has left a CATCH
  jumps           \* history: the number of throws and errors

history == <<thrown, abandoned, jumps>>
vars == <<status, frames, stk, sp, current_env, call_stack_pointer,
          ct_current_jmp_buf, envref, triggered, history>>

Val   == -2       \* any other array
NoSp  == -1       \* the table has no activation

Init ==
  /\ status = "ok"
  /\ frames = <<>> /\ stk = <<>>
  /\ sp = [o \in Ops |-> NoSp]
  /\ current_env = Null
  /\ call_stack_pointer = 0 /\ ct_current_jmp_buf = 0
  /\ envref = [o \in Ops |-> 1]
  /\ triggered \in BOOLEAN
  /\ thrown = "no" /\ abandoned = FALSE /\ jumps = 0

-------------------------------------------------------------------------------
(* Frames *)

Last(s)      == s[Len(s)]
Prefix(s, n) == SubSeq(s, 1, n)

Frame == Last(frames)

Caller == Prefix(frames, Len(frames) - 1)

Tables(o) == {Env[o][i] : i \in DOMAIN Env[o]}

(* The activation whose code is running, 0 for the line. *)
Context ==
  LET forms == {i \in DOMAIN frames : frames[i].kind = "form"}
  IN  IF forms = {} THEN 0 ELSE CHOOSE i \in forms : \A j \in forms : j <= i

(* Where the names visible in the running code are: history, what the      *)
(* rules of scope say, never read by the evaluator.                        *)
Visible == IF Context = 0 THEN [t \in {} |-> 0] ELSE frames[Context].links

Running == status = "ok" /\ frames # <<>>

MayNest ==
  Cardinality({i \in DOMAIN frames : frames[i].kind \notin {"name", "closure"}})
    < NestingMax

Temporaries == Len(stk) - Frame.floor

(* Code of the line or of an operation runs; the next two: it can use the  *)
(* stack, and it has an argument on it.                                    *)
InCode   == Running /\ Frame.kind \in {"ieval", "form"}
HasValue == InCode /\ Temporaries > 0

Referenced(env, k) ==
  IF env = Null THEN envref ELSE [envref EXCEPT ![env] = @ + k]

CanReference(env) == env # Null => envref[env] < RefMax

-------------------------------------------------------------------------------
(***************************************************************************)
(* Operations as arrays: a basic one, the name of a global one, the        *)
(* parameter of a transformer, an operation form, a closure.               *)
(***************************************************************************)
NoFun == [is |-> "none"]
Basic == [is |-> "basic"]
Param(t) == [is |-> "param", tr |-> t]

(* The form of o, with the parameter a if it is a transformer. *)
Form(o, a) ==
  [is |-> "form", op |-> o, arg |-> a,
   links |-> [t \in Tables(o) \ {o} |-> Visible[t]]]

Name(o, a) == [is |-> "name", global |-> Len(Env[o]) = 1, of |-> Form(o, a)]

(* What the running code can mention: a name whose definition it is in the *)
(* scope of; a form written in it; a parameter of a transformer around it. *)
InScope(o) == \A t \in Tables(o) \ {o} : t \in DOMAIN Visible

WrittenHere(o) ==
  IF Len(Env[o]) = 1 THEN Context = 0
  ELSE Frame.kind = "form" /\ Frame.op = Env[o][2]

Mentioned ==
  IF ~InCode THEN {}
  ELSE {Name(o, NoFun) : o \in {o \in Ops \ (Tr \cup Anonymous) : InScope(o)}}
       \cup {Form(o, NoFun) : o \in {o \in Anonymous : WrittenHere(o)}}
       \cup {Param(t) : t \in Tr \cap DOMAIN Visible}
       \cup {Basic}

(* The value of the parameter of t: what the place its stack pointer shows *)
(* holds.  NoFun: no activation of t is there.                             *)
ParamValue(t) ==
  LET at == {i \in DOMAIN frames :
               frames[i].kind = "form" /\ frames[i].op = t /\ frames[i].floor = sp[t]}
  IN  IF at = {} THEN NoFun ELSE frames[CHOOSE i \in at : TRUE].arg

IsGlobal(f) == f.is = "basic" \/ (f.is = "name" /\ f.global)

StackPointers(env) == [i \in DOMAIN Env[env] |-> sp[Env[env][i]]]

Closure(f) ==
  [is |-> "closure", env |-> current_env, sps |-> StackPointers(current_env), of |-> f]

(* b_closure: closed if there is an environment, and it is not the name of *)
(* a global operation; a parameter that is one is replaced by it.          *)
Closed(f) ==
  IF current_env = Null \/ IsGlobal(f) THEN f
  ELSE IF f.is = "param" /\ IsGlobal(ParamValue(f.tr)) THEN ParamValue(f.tr)
  ELSE Closure(f)

(* The environment a closed operation refers to. *)
Holds(f) == IF f.is = "closure" THEN f.env ELSE Null

-------------------------------------------------------------------------------
(* apply() *)

(* apply goes on with f, for the caller fs, which keeps a closure over the *)
(* environment held.                                                       *)
EnterName(f, held, fs) ==
  /\ stk' = Append(stk, Val)        \* the operation, protected, below the argument
  /\ call_stack_pointer' = call_stack_pointer + 1
  /\ frames' = Append(fs, [kind |-> "name", entry |-> Len(stk), floor |-> Len(stk),
                           todo |-> f, holds |-> held])
  /\ UNCHANGED <<sp, current_env>>

(* Mutant: the tables keep the stack pointers they have. *)
InstalledLate(f) == sp

(* setup_env saves the stack pointers of the tables of the closure below   *)
(* the argument, and gives them those of the closure.                      *)
Installed(f) ==
  [t \in Ops |-> IF t \in Tables(f.env)
                 THEN f.sps[CHOOSE i \in DOMAIN Env[f.env] : Env[f.env][i] = t] ELSE sp[t]]

EnterClosure(f, fs) ==
  LET n == Len(stk) - 1
  IN  /\ stk' = Append(Prefix(stk, n) \o StackPointers(f.env), Val)
      /\ sp' = Installed(f)
      /\ current_env' = f.env
      /\ frames' = Append(fs, [kind |-> "closure", entry |-> n + 1, floor |-> n,
                               todo |-> f.of, env |-> f.env, svenv |-> current_env])
      /\ UNCHANGED call_stack_pointer

(* prologue takes the argument, makes room for the result, saves the stack *)
(* pointer and makes room for the local name.  The body of a transformer   *)
(* is an operation, applied to the argument.                               *)
EnterForm(f, fs) ==
  LET o == f.op
      n == Len(stk) - 1
      new == n + 3
  IN  /\ stk' = Prefix(stk, n) \o <<Val, sp[o], Val>>
                  \o (IF o \in Tr THEN <<Val>> ELSE <<>>)
      /\ sp' = [sp EXCEPT ![o] = new]
      /\ current_env' = o
      /\ frames' = Append(fs, [kind |-> "form", entry |-> n + 1, floor |-> new,
                               op |-> o, arg |-> f.arg, senv |-> current_env, todo |-> NoFun,
                               links |-> [t \in Tables(o) |->
                                            IF t = o THEN new ELSE f.links[t]]])
      /\ UNCHANGED call_stack_pointer

(* A basic operation replaces its argument by its result. *)
EnterBasic(fs) ==
  /\ frames' = fs
  /\ UNCHANGED <<stk, sp, current_env, call_stack_pointer>>

Enter(f, fs) ==
  /\ \/ f.is = "basic" /\ EnterBasic(fs)
     \/ f.is = "name" /\ EnterName(f.of, Null, fs)
     \/ f.is = "param" /\ ParamValue(f.tr) # NoFun /\ EnterName(ParamValue(f.tr), Null, fs)
     \/ f.is = "closure" /\ EnterClosure(f, fs)
     \/ f.is = "form" /\ EnterForm(f, fs)
  /\ UNCHANGED <<status, ct_current_jmp_buf, envref, triggered, history>>

Call(f) ==
  /\ HasValue /\ MayNest
  /\ f.is # "basic"
  /\ Enter(f, frames)

(* A frame that has just been entered goes on with the operation inside.   *)
(* A parameter that a stale stack pointer makes its own value goes on till *)
(* the C stack is full (CSTACKFULL): only the Error is left.               *)
FramesMax == 3 * NestingMax

Continue ==
  /\ Running /\ Frame.todo # NoFun /\ Len(frames) < FramesMax
  /\ Enter(Frame.todo, [frames EXCEPT ![Len(frames)].todo = NoFun])

(* A stack pointer shows something else than an activation. *)
FetchStale ==
  /\ Running
  /\ \E t \in Tr :
       /\ ParamValue(t) = NoFun
       /\ Frame.todo = Param(t) \/ (HasValue /\ Param(t) \in Mentioned)
  /\ status' = "undefined"
  /\ UNCHANGED <<frames, stk, sp, current_env, call_stack_pointer,
                 ct_current_jmp_buf, envref, triggered, history>>

(* f, the operation of a transformer, is closed, and the closure kept. *)
Usable(f) == f.is = "param" => ParamValue(f.tr) # NoFun

Keep(a) == CanReference(Holds(a)) /\ envref' = Referenced(Holds(a), 1)

Transform(t, f) ==
  /\ HasValue /\ MayNest
  /\ InScope(t) /\ Usable(f)
  /\ Keep(Closed(f))
  /\ EnterName(Form(t, Closed(f)), Holds(Closed(f)), frames)
  /\ UNCHANGED <<status, ct_current_jmp_buf, triggered, history>>

(* CATCH f, a basic transformer: icatch takes the argument, makes its jump *)
(* buffer the current one and applies f.                                   *)
Catch(f) ==
  /\ HasValue /\ MayNest /\ Usable(f)
  /\ Keep(Closed(f))
  /\ ct_current_jmp_buf' = Len(frames) + 1
  /\ frames' = Append(frames,
       [kind |-> "catch", entry |-> Len(stk), floor |-> Len(stk) - 1,
        todo |-> Closed(f), holds |-> Holds(Closed(f)), calls |-> call_stack_pointer,
        prev |-> ct_current_jmp_buf])
  /\ UNCHANGED <<status, stk, sp, current_env, call_stack_pointer, triggered,
                 history>>

-------------------------------------------------------------------------------
(* The way back: what was applied has its result on top of the stack. *)

Done(kind) == Running /\ Frame.kind = kind /\ Frame.todo = NoFun

(* The closure kept for c is freed, and with it the environment. *)
Released(c) == Referenced(c.holds, -1)

(* exit_op; the operation is no longer protected. *)
ReturnName ==
  /\ Done("name")
  /\ stk' = Prefix(stk, Frame.floor - 1) \o <<Val>>
  /\ call_stack_pointer' = call_stack_pointer - 1
  /\ envref' = Released(Frame)
  /\ frames' = Caller
  /\ UNCHANGED <<status, sp, current_env, ct_current_jmp_buf, triggered, history>>

(* restore_env: the tables get back the stack pointers found on the stack. *)
ReturnClosure ==
  /\ Done("closure")
  /\ sp' = [t \in Ops |->
              IF t \in Tables(Frame.env)
              THEN stk[Frame.floor + CHOOSE i \in DOMAIN Env[Frame.env] :
                                       Env[Frame.env][i] = t]
              ELSE sp[t]]
  /\ current_env' = Frame.svenv
  /\ stk' = Append(Prefix(stk, Frame.floor), Val)
  /\ frames' = Caller
  /\ UNCHANGED <<status, call_stack_pointer, ct_current_jmp_buf, envref, triggered,
                 history>>

(* epilogue: the result takes its place, and the saved stack pointer goes  *)
(* to the table that is now first in the current environment.              *)
ReturnForm ==
  /\ Done("form") /\ Temporaries = 1
  /\ sp' = [sp EXCEPT ![current_env] = stk[Frame.floor - 1]]
  /\ current_env' = Frame.senv
  /\ stk' = Prefix(stk, Frame.floor - 2)
  /\ frames' = Caller
  /\ UNCHANGED <<status, call_stack_pointer, ct_current_jmp_buf, envref, triggered,
                 history>>

(* The jump buffer after the catch c. *)
BufferAfter(c) == c.prev

ReturnCatch ==
  /\ Done("catch")
  /\ ct_current_jmp_buf' = BufferAfter(Frame)
  /\ envref' = Released(Frame)
  /\ frames' = Caller
  /\ UNCHANGED <<status, stk, sp, current_env, call_stack_pointer, triggered, history>>

-------------------------------------------------------------------------------
(* ieval() *)

IevalFrame(n) ==
  [kind |-> "ieval", entry |-> Len(stk), floor |-> n, todo |-> NoFun,
   env |-> current_env]

(* A line: the main loop resets the environment and the stack.  No stack   *)
(* pointer shows an activation, whatever an error or a throw has left in it.*)
Line ==
  /\ status = "ok" /\ frames = <<>>
  /\ current_env' = Null /\ sp' = [o \in Ops |-> NoSp]
  /\ thrown' = IF thrown = "line" THEN "before" ELSE thrown
  /\ frames' = <<[IevalFrame(0) EXCEPT !.env = Null]>>
  /\ UNCHANGED <<status, stk, call_stack_pointer, ct_current_jmp_buf, envref,
                 triggered, abandoned, jumps>>

(* Mutant: ieval does not protect the current environment. *)
Unprotected == envref

Protected == Referenced(current_env, 1)

(* execute, in an operation or at the prompt of the fault loop. *)
Execute ==
  /\ Running /\ MayNest
  /\ Frame.kind = "faultloop" \/ (Frame.kind = "form" /\ HasValue)
  /\ CanReference(current_env)
  /\ envref' = Protected
  /\ LET n == IF Frame.kind = "form" THEN Len(stk) - 1 ELSE Len(stk)
     IN  /\ stk' = Prefix(stk, n)
         /\ frames' = Append(frames, IevalFrame(n))
  /\ UNCHANGED <<status, sp, current_env, call_stack_pointer,
                 ct_current_jmp_buf, triggered, history>>

(* The environment that is current now loses the reference; the model ends *)
(* with the last one.  The value of a line, or of an input to the fault    *)
(* loop, is shown and popped.                                              *)
ReturnIeval ==
  /\ Done("ieval") /\ Temporaries = 1
  /\ envref' = Referenced(current_env, -1)
  /\ status' = IF \E o \in Ops : envref'[o] = 0 THEN "undefined" ELSE "ok"
  /\ frames' = Caller
  /\ stk' = IF frames' = <<>> \/ Last(frames').kind = "faultloop"
            THEN Prefix(stk, Len(stk) - 1) ELSE stk
  /\ UNCHANGED <<sp, current_env, call_stack_pointer, ct_current_jmp_buf, triggered,
                 history>>

PushValue ==
  /\ InCode /\ Temporaries < TempMax
  /\ stk' = Append(stk, Val)
  /\ UNCHANGED <<status, frames, sp, current_env, call_stack_pointer,
                 ct_current_jmp_buf, envref, triggered, history>>

PopValue ==
  /\ HasValue
  /\ stk' = Prefix(stk, Len(stk) - 1)
  /\ UNCHANGED <<status, frames, sp, current_env, call_stack_pointer,
                 ct_current_jmp_buf, envref, triggered, history>>

-------------------------------------------------------------------------------
(* throw, faults and errors *)

(* A basic operation is applied. *)
InBasic == HasValue \/ (Running /\ Frame.todo = Basic)

CatchIsLive ==
  /\ ct_current_jmp_buf \in DOMAIN frames
  /\ frames[ct_current_jmp_buf].kind = "catch"

(* Mutant: one more value is popped. *)
ArgStackLess(c) == c.floor - 1

(* Mutant: the names that are thrown past stay on the call stack. *)
CallsLeft(c) == call_stack_pointer

(* What icatch brings back: the call stack and the height of the stack. *)
CallsAfter(c) == c.calls
ArgStack(c)   == c.floor

(* longjmp to the catch, whose caller frees its closure; what the frames   *)
(* above it had changed stays.                                             *)
Thrown ==
  LET c == frames[ct_current_jmp_buf]
      above == SubSeq(frames, ct_current_jmp_buf + 1, Len(frames))
  IN  /\ ct_current_jmp_buf # 0
      /\ jumps < JumpsMax /\ jumps' = jumps + 1
      /\ IF CatchIsLive
         THEN /\ stk' = Append(Prefix(stk, ArgStack(c)), Val)
              /\ call_stack_pointer' = CallsAfter(c)
              /\ ct_current_jmp_buf' = BufferAfter(c)
              /\ envref' = Released(c)
              /\ frames' = Prefix(frames, ct_current_jmp_buf - 1)
              /\ thrown' = IF \E i \in DOMAIN above : above[i].kind \in {"form", "closure"}
                           THEN "line" ELSE thrown
              /\ UNCHANGED status
         ELSE /\ status' = "undefined"
              /\ UNCHANGED <<stk, call_stack_pointer, ct_current_jmp_buf, envref,
                             frames, thrown>>
      /\ UNCHANGED <<sp, current_env, triggered, abandoned>>

Throw == InBasic /\ Thrown

(* makefault, when faults trigger: process_faultbreak throws the fault if  *)
(* it is in a catch, and starts the fault loop if not.                     *)
Triggers == InCode /\ triggered /\ call_stack_pointer # 0

FaultThrown == Triggers /\ Thrown

FaultLoop ==
  /\ Triggers /\ ct_current_jmp_buf = 0
  /\ MayNest /\ jumps < JumpsMax
  /\ triggered' = FALSE
  /\ frames' = Append(frames, [kind |-> "faultloop", entry |-> Len(stk),
                               floor |-> Len(stk), todo |-> NoFun])
  /\ UNCHANGED <<status, stk, sp, current_env, call_stack_pointer,
                 ct_current_jmp_buf, envref, history>>

(* longjmp to error_env; cleanup_ws clears the stack and the call stack. *)
ToTopLevel ==
  /\ jumps < JumpsMax /\ jumps' = jumps + 1
  /\ frames' = <<>> /\ stk' = <<>> /\ call_stack_pointer' = 0
  /\ abandoned' = (abandoned \/ \E i \in DOMAIN frames : frames[i].kind = "catch")
  /\ UNCHANGED <<status, sp, current_env, ct_current_jmp_buf, envref, thrown>>

EndFaultLoop ==
  /\ Done("faultloop")
  /\ triggered' = TRUE
  /\ ToTopLevel

Error ==
  /\ Running
  /\ UNCHANGED triggered
  /\ ToTopLevel

-------------------------------------------------------------------------------
Next ==
  \/ Line
  \/ \E f \in Mentioned :
       Call(f) \/ Catch(f) \/ \E t \in Tr : Transform(t, f)
  \/ Continue \/ FetchStale
  \/ ReturnName \/ ReturnClosure \/ ReturnForm \/ ReturnCatch
  \/ Execute \/ ReturnIeval \/ PushValue \/ PopValue
  \/ Throw \/ FaultThrown \/ FaultLoop \/ EndFaultLoop \/ Error

Spec == Init /\ [][Next]_vars

-------------------------------------------------------------------------------
(* Properties *)

TypeOK ==
  /\ jumps \in 0 .. JumpsMax
  /\ status \in {"ok", "undefined"}
  /\ \A i \in DOMAIN frames :
       frames[i].kind \in {"ieval", "form", "name", "closure", "catch", "faultloop"}
  /\ \A i \in DOMAIN stk : stk[i] \in Int /\ stk[i] >= Val
  /\ sp \in [Ops -> Nat \cup {NoSp}]
  /\ current_env \in Ops \cup {Null}
  /\ Context # 0 => current_env # Null
  /\ call_stack_pointer \in Nat
  /\ ct_current_jmp_buf \in Nat
  /\ envref \in [Ops -> 0 .. RefMax]
  /\ triggered \in BOOLEAN /\ abandoned \in BOOLEAN
  /\ thrown \in {"no", "line", "before"}

(* The code that runs sees the activations the rules of scope say, through *)
(* any nesting of recursion, closures, passed parameters, execute and the  *)
(* fault loop, and closes over the environment it is in.  A throw out of an*)
(* operation breaks this for the rest of the line, an error does not.      *)
Display ==
  thrown # "line" /\ InCode =>
    /\ current_env = IF Context = 0 THEN Null ELSE frames[Context].op
    /\ \A t \in DOMAIN Visible : sp[t] = Visible[t]

(* The call stack has one entry for each named operation that is active,   *)
(* also after a throw and after an error.                                  *)
CallStack ==
  call_stack_pointer = Cardinality({i \in DOMAIN frames : frames[i].kind = "name"})

(* A throw goes to the innermost catch, and is a fault where there is none,*)
(* until an error has left a catch.                                        *)
Innermost ==
  ~abandoned =>
    LET catches == {i \in DOMAIN frames : frames[i].kind = "catch"}
    IN  /\ ct_current_jmp_buf \in catches \cup {0}
        /\ \A i \in catches : i <= ct_current_jmp_buf

(* What icatch and cleanup_ws have to bring back is right in every state.  *)
Unwound == CallStack /\ Innermost

(* The references to an environment that the evaluation still needs, of an *)
(* execute or a closure, are counted, and the one of the operation itself. *)
Held(o) ==
  {i \in DOMAIN frames :
     \/ frames[i].kind = "ieval" /\ frames[i].env = o
     \/ frames[i].kind \in {"name", "catch"} /\ frames[i].holds = o}

EnvCovered == thrown = "no" => \A o \in Ops : envref[o] > Cardinality(Held(o))

(* What lies on the stack below the running functions is not changed, and  *)
(* whatever has been called leaves one value in place of its argument: by  *)
(* its return, and by a throw past any number of others.                   *)
Undisturbed ==
  [][/\ \A i \in DOMAIN frames \cap DOMAIN frames' :
          LET n == frames'[i].floor
          IN  frames[i].floor = n => Len(stk') >= n /\ Prefix(stk', n) = Prefix(stk, n)
     /\ Len(frames') < Len(frames) /\ frames' # <<>> =>
          Len(stk') = frames[Len(frames') + 1].entry]_vars
===============================================================================
