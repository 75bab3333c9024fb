------------------------- MODULE EnginePause_proofs -------------------------
(***************************************************************************)
(* The pause handshake is sound for any controllers, whatever they apply,  *)
(* up to the moment when one of them resumes the engine under another's    *)
(* request; for a controller that is alone it is sound.                    *)
(***************************************************************************)
EXTENDS EnginePause, TLAPS

\* Every variable keeps its type, whatever controllers there are and whatever
\* their handlers apply.
THEOREM TypeCorrect == Spec => []TypeOK
<1> USE ControllersAssumption, KindsAssumption
        DEF TypeOK, Engine, EnginePcs, ControlPcs
<1>1. Init => TypeOK
  BY DEF Init
<1>2. TypeOK /\ [Next]_vars => TypeOK'
  <2> SUFFICES ASSUME TypeOK, [Next]_vars PROVE TypeOK'
    OBVIOUS
  <2>1. CASE UNCHANGED vars
    BY <2>1 DEF vars, engine, control
  <2>2. ASSUME NEW e \in Engine, EngineStep(e) PROVE TypeOK'
    <3>1. pause' = pause /\ cpc' = cpc /\ kind' = kind /\ resumed' = resumed
      BY <2>2 DEF EngineStep, LoadPause, Rest, Wake, CheckPause, Use, control
    <3>2. \E b \in BOOLEAN, pc \in EnginePcs :
            /\ idle' = [idle EXCEPT ![e] = b] \/ idle' = idle
            /\ epc' = [epc EXCEPT ![e] = pc]
      BY <2>2 DEF EngineStep, LoadPause, Rest, Wake, CheckPause, Use
    <3>3. idle' \in [Engine -> BOOLEAN] /\ epc' \in [Engine -> EnginePcs]
      BY <3>2
    <3>. QED
      BY <3>1, <3>2, <3>3
  <2>3. ASSUME NEW c \in Controllers, Request(c) PROVE TypeOK'
    BY <2>3 DEF Request, Goto, engine
  <2>4. ASSUME NEW c \in Controllers, Proceed(c) PROVE TypeOK'
    <3>1. /\ idle' = idle /\ epc' = epc /\ kind' = kind
          /\ pause' \in BOOLEAN /\ resumed' \subseteq Controllers
      BY <2>4 DEF Proceed, SeeCore2Idle, SeeCore3, Alloc, FinishRom,
                  FinishPatch, FinishFlush, Resume, engine
    <3>2. \E pc \in ControlPcs : Goto(c, pc)
      BY <2>4 DEF Proceed, SeeCore2Idle, SeeCore3, Alloc, FinishRom,
                  FinishPatch, FinishFlush, AfterReplace
    <3>. QED
      BY <3>1, <3>2 DEF Goto
  <2>. QED
    BY <2>1, <2>2, <2>3, <2>4 DEF Next, Core2Run, Core3Run
<1>. QED
  BY <1>1, <1>2, PTL DEF Spec

\* A step of an engine core keeps the handshake, whatever the controllers do:
\* it goes past its check only when no request is up.
LEMMA EngineKeepsHandshake ==
  ASSUME Handshake, TypeOK', NEW e \in Engine, EngineStep(e)
  PROVE  Handshake'
<1> USE DEF Handshake, QuietUnderPause, TypeOK, Engine, EngineStep, control
<1>1. pause' = pause /\ cpc' = cpc /\ kind' = kind /\ resumed' = resumed
  BY DEF LoadPause, Rest, Wake, CheckPause, Use
<1>2. \A f \in Engine : epc'[f] \in {"check", "use"} => ~idle'[f]
  BY DEF LoadPause, Rest, Wake, CheckPause, Use
<1>3. \A f \in Engine : epc'[f] = "use" => epc[f] = "use" \/ ~pause
  BY DEF LoadPause, Rest, Wake, CheckPause, Use
<1>. QED
  BY <1>1, <1>2, <1>3 DEF UnderPause, Modifies

\* A step of one controller leaves the others' part of the handshake alone: it
\* goes nowhere but in its own handler, and the request it may lower it lowers
\* as one who resumes the engine for all.
LEMMA OthersKeepTheirs ==
  ASSUME Handshake, TypeOK', NEW c \in Controllers, Request(c) \/ Proceed(c),
         NEW d \in Controllers \ {c}
  PROVE  /\ idle' = idle /\ epc' = epc
         /\ cpc'[d] = cpc[d] /\ kind'[d] = kind[d]
         /\ d \notin resumed' =>
              d \notin resumed /\ (cpc[d] = "off" \/ pause' \/ ~pause)
<1> USE DEF TypeOK, engine, Goto, Resume
<1>1. CASE Request(c)
  BY <1>1 DEF Request
<1>2. CASE Proceed(c)
  BY <1>2 DEF Proceed, SeeCore2Idle, SeeCore3, Alloc, FinishRom, FinishPatch,
              FinishFlush
<1>. QED
  BY <1>1, <1>2

\* What the handshake says of one controller.
Theirs(c) ==
  /\ cpc[c] \in {"wait2", "wait3"} \/ UnderPause(c) => pause
  /\ cpc[c] = "wait3" => epc[2] # "use"
  /\ UnderPause(c) => \A e \in Engine : epc[e] # "use"

LEMMA HandshakeOfAll ==
  Handshake <=>
    /\ TypeOK
    /\ \A e \in Engine : epc[e] \in {"check", "use"} => ~idle[e]
    /\ \A c \in Controllers : cpc[c] \in {"alloc", "rom"} => kind[c] \in {"sr", "swap"}
    /\ \A c \in Controllers \ resumed : Theirs(c)
BY DEF Handshake, QuietUnderPause, Theirs

\* What a controller applies when it has its ROM: an expansion.
LEMMA OwnKind ==
  ASSUME Handshake, TypeOK', NEW c \in Controllers, Request(c) \/ Proceed(c)
  PROVE  cpc'[c] \in {"alloc", "rom"} => kind'[c] \in {"sr", "swap"}
<1> USE DEF Handshake, TypeOK, Goto
<1>1. CASE Request(c)
  BY <1>1 DEF Request
<1>2. CASE SeeCore3(c)
  BY <1>2 DEF SeeCore3
<1>3. CASE SeeCore2Idle(c) \/ FinishPatch(c) \/ FinishFlush(c)
  BY <1>3 DEF SeeCore2Idle, FinishPatch, FinishFlush
<1>4. CASE Alloc(c) \/ FinishRom(c)
  BY <1>4 DEF Alloc, FinishRom, AfterReplace
<1>. QED
  BY <1>1, <1>2, <1>3, <1>4 DEF Proceed

\* A step of a controller keeps its own part: it raises its request before it
\* waits, modifies nothing before it has seen both flags since, and does not
\* lower the request before it is done with what needs it.
LEMMA ControllerKeepsOwn ==
  ASSUME Handshake, TypeOK', NEW c \in Controllers, Request(c) \/ Proceed(c),
         c \notin resumed'
  PROVE  Theirs(c)'
<1> USE DEF Handshake, QuietUnderPause, TypeOK, Engine, engine, Goto,
            UnderPause, Modifies, Theirs
<1>1. CASE Request(c)
  <2>1. /\ pause' /\ idle' = idle /\ epc' = epc
        /\ cpc'[c] = "wait2"
    BY <1>1 DEF Request
  <2>. QED
    BY <2>1
<1>2. CASE SeeCore2Idle(c)
  BY <1>2 DEF SeeCore2Idle
<1>3. CASE SeeCore3(c)
  <2>1. /\ pause' = pause /\ idle' = idle /\ epc' = epc /\ kind' = kind
        /\ cpc[c] = "wait3" /\ pause /\ epc[2] # "use"
    BY <1>3 DEF SeeCore3
  <2>2. cpc'[c] # "wait3"
    BY <1>3 DEF SeeCore3
  <2>3. CASE ~idle[3]
    <3>1. cpc'[c] = "wait2"
      BY <1>3, <2>3 DEF SeeCore3
    <3>. QED
      BY <2>1, <3>1
  <2>4. CASE idle[3]
    <3>1. \A e \in Engine : epc[e] # "use"
      BY <2>1, <2>4
    <3>2. \/ cpc'[c] = "alloc" /\ kind[c] \in {"sr", "swap"}
          \/ cpc'[c] \in {"patch", "flush"}
      BY <1>3, <2>4 DEF SeeCore3
    <3>. QED
      BY <2>1, <3>1, <3>2
  <2>. QED
    BY <2>3, <2>4
<1>4. CASE Alloc(c)
  BY <1>4 DEF Alloc, AfterReplace, Resume
<1>5. CASE FinishRom(c)
  BY <1>5 DEF FinishRom, AfterReplace, Resume
<1>6. CASE FinishPatch(c)
  BY <1>6 DEF FinishPatch
<1>7. CASE FinishFlush(c)
  BY <1>7 DEF FinishFlush, Resume
<1>. QED
  BY <1>1, <1>2, <1>3, <1>4, <1>5, <1>6, <1>7 DEF Proceed

\* The handshake as a whole, after a step of a controller.
LEMMA ControllerKeepsHandshake ==
  ASSUME Handshake, TypeOK', NEW c \in Controllers, Request(c) \/ Proceed(c)
  PROVE  Handshake'
<1>1. idle' = idle /\ epc' = epc
  BY DEF Request, Proceed, SeeCore2Idle, SeeCore3, Alloc, FinishRom,
         FinishPatch, FinishFlush, engine
<1>2. \A e \in Engine : epc'[e] \in {"check", "use"} => ~idle'[e]
  BY <1>1, HandshakeOfAll
<1>3. ASSUME NEW d \in Controllers \ {c}
      PROVE  /\ cpc'[d] \in {"alloc", "rom"} => kind'[d] \in {"sr", "swap"}
             /\ d \notin resumed' => Theirs(d)'
  <2>1. /\ cpc'[d] = cpc[d] /\ kind'[d] = kind[d]
        /\ d \notin resumed' =>
             d \notin resumed /\ (cpc[d] = "off" \/ pause' \/ ~pause)
    BY OthersKeepTheirs
  <2>2. /\ cpc[d] \in {"alloc", "rom"} => kind[d] \in {"sr", "swap"}
        /\ d \notin resumed => Theirs(d)
    BY HandshakeOfAll
  <2>. QED
    BY <1>1, <2>1, <2>2 DEF Theirs, UnderPause, Modifies
<1>4. c \notin resumed' => Theirs(c)'
  BY ControllerKeepsOwn
<1>5. /\ \A d \in Controllers :
           cpc'[d] \in {"alloc", "rom"} => kind'[d] \in {"sr", "swap"}
      /\ \A d \in Controllers \ resumed' : Theirs(d)'
  BY <1>3, <1>4, OwnKind
<1>6. /\ TypeOK'
      /\ \A e \in Engine : epc'[e] \in {"check", "use"} => ~idle'[e]
      /\ \A d \in Controllers : cpc'[d] \in {"alloc", "rom"} => kind'[d] \in {"sr", "swap"}
      /\ \A d \in Controllers \ resumed' : Theirs(d)'
  BY <1>2, <1>5
<1>. QED
  BY <1>6 DEF Handshake, QuietUnderPause, Theirs

\* The inductive invariant of the handshake, for any number of controllers that
\* pause and resume the engine as they like.
THEOREM HandshakeHolds == Spec => []Handshake
<1>1. Init => Handshake
  <2> SUFFICES ASSUME Init PROVE Handshake
    OBVIOUS
  <2>1. TypeOK
    BY ControllersAssumption DEF Init, TypeOK, Engine, EnginePcs, ControlPcs
  <2>2. /\ \A e \in Engine : epc[e] = "top" /\ ~idle[e]
        /\ \A d \in Controllers : cpc[d] = "off"
    BY DEF Init
  <2>3. \A d \in Controllers : ~UnderPause(d)
    BY <2>2 DEF UnderPause, Modifies
  <2>. QED
    BY <2>1, <2>2, <2>3 DEF Handshake, QuietUnderPause
<1>2. Handshake /\ TypeOK' /\ [Next]_vars => Handshake'
  <2> SUFFICES ASSUME Handshake, TypeOK', [Next]_vars PROVE Handshake'
    OBVIOUS
  <2>1. CASE UNCHANGED vars
    BY <2>1 DEF vars, engine, control, Handshake, QuietUnderPause, TypeOK,
                UnderPause, Modifies
  <2>2. CASE Core2Run \/ Core3Run
    BY <2>2, EngineKeepsHandshake DEF Core2Run, Core3Run, Engine
  <2>3. ASSUME NEW c \in Controllers, Request(c) \/ Proceed(c) PROVE Handshake'
    BY <2>3, ControllerKeepsHandshake
  <2>. QED
    BY <2>1, <2>2, <2>3 DEF Next
<1>. QED
  BY <1>1, <1>2, TypeCorrect, PTL DEF Spec

\* With a single controller, no engine core executes an instruction, copies a
\* sample or renders a batch while ReplaceExpansionSafe or
\* ApplySelectedRD500Patch rewrites ROM, RAM or NVRAM under the request.
THEOREM QuietUnderHandshake ==
  ASSUME NEW c, Controllers = {c}
  PROVE  Spec => [](UnderPause(c) => \A e \in Engine : epc[e] # "use")
<1>. DEFINE Alone == resumed = {}
          Quiet == UnderPause(c) => \A e \in Engine : epc[e] # "use"
<1>1. Init => Alone
  BY DEF Init
<1>2. Alone /\ [Next]_vars => Alone'
  <2> SUFFICES ASSUME resumed = {}, [Next]_vars PROVE resumed' = {}
    OBVIOUS
  <2>1. CASE UNCHANGED vars
    BY <2>1 DEF vars
  <2>2. ASSUME NEW e \in Engine, EngineStep(e) PROVE resumed' = {}
    BY <2>2 DEF EngineStep, LoadPause, Rest, Wake, CheckPause, Use
  <2>3. CASE Request(c) \/ Proceed(c)
    BY <2>3 DEF Request, Proceed, SeeCore2Idle, SeeCore3, Alloc,
                 FinishRom, FinishPatch, FinishFlush, Resume
  <2>. QED
    BY <2>1, <2>2, <2>3 DEF Next, Core2Run, Core3Run, Engine
<1>3. Alone /\ Handshake => Quiet
  BY DEF Handshake, QuietUnderPause
<1>4. Spec => []Quiet
  <2>. HIDE DEF Alone, Quiet
  <2>. QED
    BY <1>1, <1>2, <1>3, HandshakeHolds, PTL DEF Spec
<1>. QED
  BY <1>4
=============================================================================
