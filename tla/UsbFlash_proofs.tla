--------------------------- MODULE UsbFlash_proofs ---------------------------
(***************************************************************************)
(* The screen of the flasher tells the truth, and only a first scan or a   *)
(* check leaves the port locked, for any number of operations under way.   *)
(*                                                                         *)
(* Sound is what holds of the world (controller, port, operations) also    *)
(* inside a step, Shown what the screen promises.  Each operator of        *)
(* UsbFlash has a lemma that says what it keeps; a step puts them together.*)
(***************************************************************************)
EXTENDS UsbFlash, TLAPS

Steps == {"none", "error", "connecting", "detecting", "select_variant", "flashing", "wifi_check",
          "wifi_scan", "wifi_provision", "wifi_connecting", "reading_ip", "adding",
          "wifi_configured", "complete"}
Variants == {"wifi", "ethernet"}
Screens == [step : Steps, retry : {"none", "add", "wifi", "flash"}, variant : Variants]
Kinds == {"none", "add", "config", "rescan", "flash", "auto", "provision"}

\* Where an operation holds the streams, where it asks the device about itself, and
\* the other places where it can be.
Holding == {"loading", "asking", "writing", "scanning", "checking", "detecting", "sending", "reading"}
Probing == {"detecting", "checkWakes", "checking"}
Places == Holding \cup Probing \cup
          {"free", "choosing", "refused", "scanWakes", "adding", "backoff", "settingUp"}

Controller == [screen : Screens, running : BOOLEAN, hasPort : BOOLEAN,
               probe : Flows \cup {None}, kept : BOOLEAN, dialog : Flows \cup {None}]
Serial == [open : BOOLEAN, lock : Flows \cup {"free", "kept", "lost"}, stub : BOOLEAN]
Operation == [kind : Kinds, pc : Places, live : BOOLEAN, variant : Variants,
              attempt : 1..MaxAttempts, opened : BOOLEAN, orig : BOOLEAN, waiter : BOOLEAN]
World == [c : Controller, p : Serial, f : [Flows -> Operation]]

\* A reset waits for an operation that it has superseded, and a second scan scans.
Proper(o) == /\ o.waiter => ~o.live
             /\ o.kind = "rescan" => o.pc \in {"free", "scanWakes", "scanning"}

\* The lock of the streams is with an operation that is using them, and the controller
\* knows of those of a provisioning; a probe is an operation that probes.
Sound(w) ==
    /\ w \in World
    /\ \A g \in Flows : Proper(w.f[g])
    /\ w.c.probe # None => w.f[w.c.probe].pc \in Probing
    /\ w.p.lock \in Flows => /\ w.f[w.p.lock].pc \in Holding
                             /\ w.f[w.p.lock].pc \in {"sending", "reading"} => w.c.kept

\* Nothing is promised, or somebody is at work on it.
Calm(w) == w.c.screen.step \notin Working
Shown(w) == Calm(w) \/ \E g \in Flows : w.f[g].live \/ w.f[g].waiter

\* Whoever is counted on is under way (not so within a step, where one is begun).
Real(w) == \A g \in Flows : w.f[g].live \/ w.f[g].waiter => w.f[g].pc # "free"

\* The streams are not lost from w to v.
Keeps(w, v) == v.p.lock = "lost" => w.p.lock = "lost"

-----------------------------------------------------------------------------
(* The operators of the module                                             *)

LEMMA Start == Init => Sound(W) /\ Shown(W) /\ Real(W)
BY UsbAssumption DEF Init, Sound, W, World, Controller, Serial, Operation, Screens, NoScreen, NoFlow,
   Steps, Variants, Kinds, Places, Proper, Shown, Calm, Working, Real

LEMMA ShowKeeps ==
    ASSUME NEW w, Sound(w), NEW s \in Steps
    PROVE  /\ Sound(Show(w, s)) /\ Show(w, s).c.screen.step = s
           /\ Show(w, s).f = w.f /\ Show(w, s).p = w.p
           /\ Show(w, s).c = [w.c EXCEPT !.screen = [NoScreen EXCEPT !.step = s]]
<1> DEFINE v == Show(w, s)
<1>1. [NoScreen EXCEPT !.step = s] \in Screens /\ [NoScreen EXCEPT !.step = s].step = s
    BY DEF NoScreen, Screens, Variants, Steps
<1>2. w \in World /\ w.c \in Controller BY DEF Sound, World
<1>3. /\ v.c = [w.c EXCEPT !.screen = [NoScreen EXCEPT !.step = s]]
      /\ v.f = w.f /\ v.p = w.p
    BY <1>2 DEF Show, World, Controller
<1>4. v \in World BY <1>1, <1>2 DEF Show, World, Controller
<1>5. v.c.screen.step = s /\ v.c.probe = w.c.probe /\ v.c.kept = w.c.kept
    BY <1>1, <1>2, <1>3 DEF Controller
<1> QED BY <1>3, <1>4, <1>5 DEF Sound

LEMMA ErrorKeeps ==
    ASSUME NEW w, Sound(w), NEW r \in {"none", "wifi", "flash"}, NEW v \in Variants
    PROVE  /\ Sound(ShowError(w, r, v)) /\ Calm(ShowError(w, r, v))
           /\ ShowError(w, r, v).f = w.f /\ ShowError(w, r, v).p = w.p
           /\ ShowError(w, r, v).c.probe = w.c.probe
<1> DEFINE x == ShowError(w, r, v)
           s == [step |-> "error", retry |-> r, variant |-> v]
<1>1. s \in Screens /\ s.step = "error" BY DEF Screens, Steps
<1>2. w \in World /\ w.c \in Controller BY DEF Sound, World
<1>3. x.c = [w.c EXCEPT !.screen = s] /\ x.f = w.f /\ x.p = w.p
    BY <1>2 DEF ShowError, World, Controller
<1>4. x \in World BY <1>1, <1>2 DEF ShowError, World, Controller
<1>5. x.c.screen.step = "error" /\ x.c.probe = w.c.probe /\ x.c.kept = w.c.kept
    BY <1>1, <1>2, <1>3 DEF Controller
<1> QED BY <1>3, <1>4, <1>5 DEF Sound, Calm, Working

\* The streams are with whom they were with, or free; nothing else that Sound or the
\* screen speak of has changed.
Frees(w, v) == /\ v.f = w.f /\ v.c.probe = w.c.probe /\ v.c.screen = w.c.screen
               /\ \/ v.p.lock = w.p.lock /\ v.c.kept = w.c.kept
                  \/ v.p.lock = "free" /\ ~v.c.kept

\* From w to v only the operation f has changed, to what it holds and probes there.
Edits(w, v, f) ==
    /\ v \in World /\ v.f = [w.f EXCEPT ![f] = v.f[f]]
    /\ Proper(v.f[f])
    /\ v.c.probe # None => v.c.probe = w.c.probe \/ v.c.probe = f
    /\ v.c.probe = f => v.f[f].pc \in Probing
    /\ v.p.lock = f => /\ v.f[f].pc \in Holding
                       /\ v.f[f].pc \in {"sending", "reading"} => v.c.kept
    /\ v.p.lock \in Flows /\ v.p.lock # f => v.p.lock = w.p.lock /\ (w.c.kept => v.c.kept)

LEMMA NoFlowFacts == /\ NoFlow \in Operation /\ ~NoFlow.live /\ ~NoFlow.waiter
                     /\ NoFlow.kind = "none" /\ NoFlow.pc = "free"
BY UsbAssumption DEF NoFlow, Operation, Kinds, Places, Variants

LEMMA EditsKeeps == ASSUME NEW w, NEW v, NEW f \in Flows, Sound(w), Edits(w, v, f) PROVE Sound(v)
<1>1. w \in World /\ v \in World /\ w.f \in [Flows -> Operation] /\ v.f \in [Flows -> Operation]
    BY DEF Sound, Edits, World
<1>2. \A g \in Flows : g # f => v.f[g] = w.f[g] BY <1>1 DEF Edits
<1>3. \A g \in Flows : Proper(v.f[g]) BY <1>2 DEF Sound, Edits
<1>4. v.c.probe \in Flows \cup {None} BY <1>1 DEF World, Controller
<1>5. v.c.probe # None => v.f[v.c.probe].pc \in Probing BY <1>2, <1>4 DEF Sound, Edits
<1>6. v.p.lock \in Flows => /\ v.f[v.p.lock].pc \in Holding
                            /\ v.f[v.p.lock].pc \in {"sending", "reading"} => v.c.kept
    BY <1>2 DEF Sound, Edits
<1> QED BY <1>1, <1>3, <1>5, <1>6 DEF Sound

LEMMA FreesKeeps ==
    ASSUME NEW w, NEW v \in World, Sound(w), Frees(w, v)
    PROVE  /\ Sound(v) /\ Keeps(w, v) /\ (Calm(w) => Calm(v)) /\ (Shown(w) => Shown(v))
           /\ Real(w) => Real(v)
BY UsbAssumption DEF Sound, Frees, Keeps, Calm, Shown, Real

LEMMA FreesFrees == ASSUME NEW u, NEW v, NEW w, Frees(u, v), Frees(v, w) PROVE Frees(u, w)
BY DEF Frees

LEMMA FreedKeeps ==
    ASSUME NEW w, Sound(w), NEW v, v = [w EXCEPT !.p.lock = "free", !.c.kept = FALSE]
    PROVE  v \in World /\ Frees(w, v) /\ v.p.lock = "free" /\ ~v.c.kept
<1>1. w \in World /\ w.c \in Controller /\ w.p \in Serial BY DEF Sound, World
<1>2. PICK c : c = [w.c EXCEPT !.kept = FALSE] OBVIOUS
<1>3. PICK p : p = [w.p EXCEPT !.lock = "free"] OBVIOUS
<1>4. c \in Controller /\ ~c.kept /\ c.probe = w.c.probe /\ c.screen = w.c.screen
    BY <1>1, <1>2 DEF Controller
<1>5. p \in Serial /\ p.lock = "free" BY <1>1, <1>3 DEF Serial
<1>6. v = [[w EXCEPT !.p = p] EXCEPT !.c = c]
  <2>1. [w EXCEPT !.p.lock = "free"] = [w EXCEPT !.p = p] BY <1>3
  <2>2. PICK u : u = [w EXCEPT !.p.lock = "free"] OBVIOUS
  <2>3. v = [u EXCEPT !.c.kept = FALSE] BY <2>2
  <2>4. u.c = w.c BY <1>1, <2>2 DEF World
  <2> QED BY <1>2, <2>1, <2>2, <2>3, <2>4
<1>7. v.c = c /\ v.p = p /\ v.f = w.f /\ v \in World
    BY <1>1, <1>4, <1>5, <1>6 DEF World
<1> QED BY <1>4, <1>5, <1>7 DEF Frees

LEMMA FreeKeeps ==
    ASSUME NEW w, Sound(w), NEW f \in Flows
    PROVE  /\ Free(w, f) \in World /\ Frees(w, Free(w, f)) /\ Free(w, f).p.lock # f
           /\ w.p.lock # f => Free(w, f) = w
<1>1. w \in World /\ Frees(w, w) BY DEF Sound, Frees
<1>2. CASE w.p.lock = f
  <2>1. Free(w, f) = [w EXCEPT !.p.lock = "free", !.c.kept = FALSE] BY <1>2 DEF Free
  <2> QED BY <1>2, <2>1, FreedKeeps, UsbAssumption
<1>3. CASE w.p.lock # f
  <2>1. Free(w, f) = w BY <1>3 DEF Free
  <2> QED BY <1>1, <1>3, <2>1
<1> QED BY <1>2, <1>3

LEMMA ReleaseKeeps ==
    ASSUME NEW w, Sound(w)
    PROVE  /\ ReleaseKept(w) \in World /\ Frees(w, ReleaseKept(w))
           /\ w.c.kept => ReleaseKept(w).p.lock = "free"
           /\ ~ReleaseKept(w).c.kept
<1>1. w \in World /\ Frees(w, w) BY DEF Sound, Frees
<1>2. CASE w.c.kept
  <2>1. ReleaseKept(w) = [w EXCEPT !.p.lock = "free", !.c.kept = FALSE] BY <1>2 DEF ReleaseKept
  <2> QED BY <2>1, FreedKeeps
<1>3. CASE ~w.c.kept
  <2>1. ReleaseKept(w) = w BY <1>3 DEF ReleaseKept
  <2> QED BY <1>1, <1>3, <2>1
<1> QED BY <1>2, <1>3

LEMMA TryCloseKeeps ==
    ASSUME NEW w, Sound(w)
    PROVE  /\ TryClose(w) \in World /\ Frees(w, TryClose(w))
           /\ TryClose(w).c = w.c /\ TryClose(w).p.lock = w.p.lock
<1>1. w \in World /\ w.p \in Serial BY DEF Sound, World
<1> QED BY <1>1 DEF TryClose, Frees, World, Serial

LEMMA CloseKeeps ==
    ASSUME NEW w, Sound(w)
    PROVE  /\ [TryClose(w) EXCEPT !.c.hasPort = FALSE] \in World
           /\ Frees(w, [TryClose(w) EXCEPT !.c.hasPort = FALSE])
           /\ [TryClose(w) EXCEPT !.c.hasPort = FALSE].p.lock = w.p.lock
<1> DEFINE t == TryClose(w)
           v == [t EXCEPT !.c.hasPort = FALSE]
<1>1. t \in World /\ t.c \in Controller /\ t.c = w.c /\ Frees(w, t) /\ t.p.lock = w.p.lock
    BY TryCloseKeeps DEF World
<1> HIDE DEF t
<1>2. v.c = [t.c EXCEPT !.hasPort = FALSE] /\ v.f = t.f /\ v.p = t.p /\ v \in World
    BY <1>1 DEF World, Controller
<1>3. v.c.probe = t.c.probe /\ v.c.screen = t.c.screen /\ v.c.kept = t.c.kept
    BY <1>1, <1>2 DEF Controller
<1> HIDE DEF v
<1>4. Frees(w, v) /\ v.p.lock = w.p.lock BY <1>1, <1>2, <1>3 DEF Frees
<1> QED BY <1>2, <1>4 DEF t, v

LEMMA CloseMineKeeps ==
    ASSUME NEW w, Sound(w)
    PROVE  CloseMine(w) \in World /\ Frees(w, CloseMine(w)) /\ CloseMine(w).p.lock = w.p.lock
BY CloseKeeps DEF CloseMine, Frees, Sound

LEMMA NotRunningKeeps ==
    ASSUME NEW w, Sound(w)
    PROVE  NotRunning(w) \in World /\ Frees(w, NotRunning(w)) /\ NotRunning(w).p = w.p
           /\ NotRunning(w).c.kept = w.c.kept
<1>1. w \in World /\ w.c \in Controller BY DEF Sound, World
<1> QED BY <1>1 DEF NotRunning, Frees, World, Controller

LEMMA TearDownKeeps ==
    ASSUME NEW w, Sound(w)
    PROVE  TearDownSerialPort(w) \in World /\ Frees(w, TearDownSerialPort(w))
<1>1. ReleaseKept(w) \in World /\ Frees(w, ReleaseKept(w)) BY ReleaseKeeps
<1>2. Sound(ReleaseKept(w)) BY <1>1, FreesKeeps
<1>3. /\ CloseMine(ReleaseKept(w)) \in World
      /\ Frees(ReleaseKept(w), CloseMine(ReleaseKept(w)))
    BY <1>2, CloseMineKeeps
<1> QED BY <1>1, <1>3, FreesFrees DEF TearDownSerialPort

LEMMA ClearKeeps ==
    ASSUME NEW w, Sound(w)
    PROVE  /\ Sound(Clear(w)) /\ Calm(Clear(w)) /\ Keeps(w, Clear(w))
           /\ Clear(w).f = w.f /\ Clear(w).c.probe = w.c.probe
           /\ Clear(w).p.lock \in {w.p.lock, "free"}
<1> DEFINE t == TearDownSerialPort(w)
<1>1. t \in World /\ Frees(w, t) BY TearDownKeeps
<1>2. Sound(t) /\ Keeps(w, t) BY <1>1, FreesKeeps
<1> HIDE DEF t
<1>3. /\ Sound(Show(t, "none")) /\ Show(t, "none").c.screen.step = "none"
      /\ Show(t, "none").f = t.f /\ Show(t, "none").p = t.p
      /\ Show(t, "none").c = [t.c EXCEPT !.screen = [NoScreen EXCEPT !.step = "none"]]
    BY <1>2, ShowKeeps DEF Steps
<1>4. Show(t, "none").c.probe = t.c.probe BY <1>1, <1>3 DEF World, Controller
<1>5. Clear(w) = Show(t, "none") BY DEF Clear, t
<1> QED BY <1>1, <1>2, <1>3, <1>4, <1>5 DEF Frees, Keeps, Calm, Working

LEMMA BumpKeeps ==
    ASSUME NEW w, Sound(w)
    PROVE  /\ Sound(BumpOpId(w)) /\ BumpOpId(w).c = w.c /\ BumpOpId(w).p = w.p
           /\ \A g \in Flows : BumpOpId(w).f[g] = [w.f[g] EXCEPT !.live = FALSE]
<1> DEFINE b == BumpOpId(w)
<1>1. w \in World /\ w.f \in [Flows -> Operation] BY DEF Sound, World
<1>2. b.f = [f \in Flows |-> [w.f[f] EXCEPT !.live = FALSE]] /\ b.c = w.c /\ b.p = w.p
    BY <1>1 DEF BumpOpId, World
<1> HIDE DEF b
<1>3. \A g \in Flows : /\ b.f[g] = [w.f[g] EXCEPT !.live = FALSE] /\ b.f[g] \in Operation
                       /\ b.f[g].pc = w.f[g].pc /\ b.f[g].kind = w.f[g].kind
                       /\ b.f[g].waiter = w.f[g].waiter /\ ~b.f[g].live
  <2>1. TAKE g \in Flows
  <2>2. w.f[g] \in Operation /\ b.f[g] = [w.f[g] EXCEPT !.live = FALSE] BY <1>1, <1>2
  <2> QED BY <2>2 DEF Operation
<1>4. b \in World
  <2>1. b = [w EXCEPT !.f = b.f] BY <1>1, <1>2 DEF b, BumpOpId, World
  <2>2. b.f \in [Flows -> Operation] BY <1>2, <1>3
  <2> QED BY <1>1, <2>1, <2>2 DEF World
<1>5. w.c.probe \in Flows \cup {None} BY <1>1 DEF World, Controller
<1>6. Sound(b)
  <2>1. \A g \in Flows : Proper(w.f[g]) => Proper(b.f[g]) BY <1>3 DEF Proper
  <2>2. b.c.probe # None => b.f[b.c.probe].pc \in Probing BY <1>2, <1>3, <1>5 DEF Sound
  <2>3. b.p.lock \in Flows => /\ b.f[b.p.lock].pc \in Holding
                              /\ b.f[b.p.lock].pc \in {"sending", "reading"} => b.c.kept
      BY <1>2, <1>3 DEF Sound
  <2> QED BY <1>4, <2>1, <2>2, <2>3 DEF Sound
<1> QED BY <1>2, <1>3, <1>6 DEF b

\* A reset supersedes every operation; the screen is cleared, or the probe will do it.
LEMMA ResetKeeps ==
    ASSUME NEW w, Sound(w)
    PROVE  /\ Sound(ResetUsbState(w)) /\ Shown(ResetUsbState(w)) /\ Keeps(w, ResetUsbState(w))
           /\ ResetUsbState(w).c.probe = None
           /\ ResetUsbState(w).p.lock \in {w.p.lock, "free"}
           /\ \A g \in Flows : /\ ResetUsbState(w).f[g].pc = w.f[g].pc
                              /\ ~ResetUsbState(w).f[g].live
           /\ Real(w) => Real(ResetUsbState(w))
<1> DEFINE b == BumpOpId(w)
           q == w.c.probe
           r == [b EXCEPT !.f[q].waiter = TRUE, !.c.probe = None]
<1>1. /\ Sound(b) /\ b.c = w.c /\ b.p = w.p
      /\ \A g \in Flows : b.f[g] = [w.f[g] EXCEPT !.live = FALSE]
    BY BumpKeeps
<1>2. /\ w \in World /\ w.f \in [Flows -> Operation] /\ b \in World
      /\ b.c \in Controller /\ b.p \in Serial /\ b.f \in [Flows -> Operation]
    BY <1>1 DEF Sound, World
<1>3. \A g \in Flows : /\ b.f[g].pc = w.f[g].pc /\ ~b.f[g].live /\ b.f[g] \in Operation
                       /\ b.f[g].waiter = w.f[g].waiter
  <2>1. TAKE g \in Flows
  <2>2. w.f[g] \in Operation /\ b.f[g] = [w.f[g] EXCEPT !.live = FALSE] BY <1>1, <1>2
  <2> QED BY <2>2 DEF Operation
<1> HIDE DEF b
<1>4. CASE q = None
  <2>1. ResetUsbState(w) = Clear(b) BY <1>4 DEF ResetUsbState, b, q
  <2>2. /\ Sound(Clear(b)) /\ Calm(Clear(b)) /\ Keeps(b, Clear(b)) /\ Clear(b).f = b.f
        /\ Clear(b).c.probe = b.c.probe /\ Clear(b).p.lock \in {b.p.lock, "free"}
      BY <1>1, ClearKeeps
  <2> QED BY <1>1, <1>3, <1>4, <2>1, <2>2 DEF Keeps, Shown, Real
<1>5. CASE q # None
  <2>1. q \in Flows BY <1>2, <1>5 DEF World, Controller
  <2>2. ResetUsbState(w) = r BY <1>5 DEF ResetUsbState, b
  <2> DEFINE o == [b.f[q] EXCEPT !.waiter = TRUE]
  <2>3. /\ r.c = [b.c EXCEPT !.probe = None] /\ r.p = b.p
        /\ r.f = [b.f EXCEPT ![q] = o]
      BY <1>2, <2>1 DEF World
  <2>4. o \in Operation /\ o.pc = b.f[q].pc /\ o.kind = b.f[q].kind /\ ~o.live /\ o.waiter
      BY <1>3, <2>1 DEF Operation
  <2>5. r = [b EXCEPT !.f = r.f, !.c = r.c] BY <1>2, <2>3 DEF World
  <2> HIDE DEF o, r
  <2>6. r.c \in Controller /\ r.c.probe = None /\ r.c.kept = b.c.kept
      BY <1>2, <2>3 DEF World, Controller
  <2>7. r.f \in [Flows -> Operation] /\ r.f[q] = o /\ \A g \in Flows : g # q => r.f[g] = b.f[g]
      BY <1>2, <2>1, <2>3, <2>4 DEF World
  <2>8. r \in World BY <1>2, <2>5, <2>6, <2>7 DEF World
  <2>9. b.f[q].pc \in Probing /\ Proper(b.f[q]) BY <1>1, <1>5, <2>1 DEF Sound
  <2>10. Proper(o) BY <2>4, <2>9 DEF Proper, Probing
  <2>11. b.p.lock = q => /\ o.pc \in Holding
                         /\ o.pc \in {"sending", "reading"} => b.c.kept
      BY <1>1, <2>1, <2>4 DEF Sound
  <2>12. Edits(b, r, q)
      BY UsbAssumption, <2>1, <2>3, <2>6, <2>7, <2>8, <2>10, <2>11 DEF Edits
  <2>13. Sound(r) BY <1>1, <2>1, <2>12, EditsKeeps
  <2>14. Shown(r) BY <2>1, <2>4, <2>7 DEF Shown
  <2>15. \A g \in Flows : r.f[g].pc = w.f[g].pc /\ ~r.f[g].live BY <1>3, <2>4, <2>7
  <2>16. Real(w) => Real(r) BY <1>3, <2>4, <2>7, <2>9 DEF Real, Probing
  <2> QED BY <1>1, <2>2, <2>3, <2>6, <2>13, <2>14, <2>15, <2>16 DEF Keeps
<1> QED BY <1>4, <1>5 DEF q

\* The streams that an operation holds when it returns are lost unless the controller
\* has them; a screen that did not count on it is still right.
LEMMA ReturnKeeps ==
    ASSUME NEW w, Sound(w), NEW f \in Flows, w.c.probe # f,
           Calm(w) \/ (Shown(w) /\ ~w.f[f].live)
    PROVE  /\ Sound(Return(w, f)) /\ Shown(Return(w, f)) /\ (Real(w) => Real(Return(w, f)))
           /\ Return(w, f).p.lock = "lost" =>
                 w.p.lock = "lost" \/ (w.p.lock = f /\ ~w.c.kept)
<1> DEFINE left == IF w.p.lock # f THEN w.p.lock ELSE IF w.c.kept THEN "kept" ELSE "lost"
           e == [w EXCEPT !.p.lock = left, !.f[f] = NoFlow]
<1>1. w \in World /\ w.p \in Serial BY DEF Sound, World
<1>2. e.c = w.c /\ e.p = [w.p EXCEPT !.lock = left] /\ e.f = [w.f EXCEPT ![f] = NoFlow]
    BY <1>1 DEF World
<1>3. e = [w EXCEPT !.p = e.p, !.f = e.f] BY <1>1, <1>2 DEF World
<1>4. left \in Flows \cup {"free", "kept", "lost"} BY <1>1 DEF Serial
<1>5. /\ NoFlow \in Operation /\ ~NoFlow.live /\ ~NoFlow.waiter /\ NoFlow.kind = "none"
    BY NoFlowFacts
<1>6. /\ left # f /\ (left \in Flows => left = w.p.lock)
      /\ left = "lost" => w.p.lock = "lost" \/ (w.p.lock = f /\ ~w.c.kept)
    BY UsbAssumption
<1> HIDE DEF left, e
<1>7. e.p \in Serial /\ e.p.lock = left BY <1>1, <1>2, <1>4 DEF Serial
<1>8. /\ e.f \in [Flows -> Operation] /\ e.f[f] = NoFlow
      /\ \A g \in Flows : g # f => e.f[g] = w.f[g]
    BY <1>1, <1>2, <1>5 DEF World
<1>9. e \in World BY <1>1, <1>3, <1>7, <1>8 DEF World
<1>10. Proper(NoFlow) BY <1>5 DEF Proper
<1>11. Edits(w, e, f) BY <1>2, <1>6, <1>7, <1>8, <1>9, <1>10 DEF Edits
<1>12. Sound(e) BY <1>11, EditsKeeps
<1>13. Real(w) => Real(e) BY <1>5, <1>8 DEF Real
<1>14. CASE w.f[f].waiter
  <2>1. Return(w, f) = Clear(e) BY <1>14 DEF Return, e, left
  <2>2. Sound(Clear(e)) /\ Calm(Clear(e)) /\ Keeps(e, Clear(e)) /\ Clear(e).f = e.f
      BY <1>12, ClearKeeps
  <2> QED BY <1>6, <1>7, <1>13, <2>1, <2>2 DEF Keeps, Shown, Real
<1>15. CASE ~w.f[f].waiter
  <2>1. Return(w, f) = e BY <1>15 DEF Return, e, left
  <2>2. Shown(e)
    <3>1. CASE Calm(w) BY <1>2, <3>1 DEF Calm, Shown
    <3>2. ASSUME ~Calm(w) PROVE Shown(e)
      <4>1. PICK g \in Flows : w.f[g].live \/ w.f[g].waiter BY <3>2 DEF Shown
      <4>2. g # f BY <1>15, <3>2, <4>1
      <4> QED BY <1>8, <4>1, <4>2 DEF Shown
    <3> QED BY <3>1, <3>2
  <2> QED BY <1>6, <1>7, <1>12, <1>13, <2>1, <2>2
<1> QED BY <1>14, <1>15

-----------------------------------------------------------------------------
(* What the steps are built from                                           *)

\* From w to v only operation f has changed, and no streams were lost.
Puts(w, v, f) == /\ Sound(v) /\ Keeps(w, v)
                 /\ \A g \in Flows : g # f => v.f[g] = w.f[g]

LEMMA PutReal ==
    ASSUME NEW w, NEW v, NEW f \in Flows, Real(w), Puts(w, v, f), v.f[f].pc # "free"
    PROVE  Real(v)
BY DEF Real, Puts

LEMMA EditPuts ==
    ASSUME NEW w, NEW v, NEW f \in Flows, Sound(w), Edits(w, v, f), Keeps(w, v)
    PROVE  Puts(w, v, f)
<1>1. Sound(v) BY EditsKeeps
<1>2. w.f \in [Flows -> Operation] BY DEF Sound, World
<1> QED BY <1>1, <1>2 DEF Edits, Puts

LEMMA AtPuts ==
    ASSUME NEW w, Sound(w), NEW f \in Flows, NEW pc \in Places \ {"free"},
           w.f[f].kind = "rescan" => pc \in {"scanWakes", "scanning"},
           w.c.probe = f => pc \in Probing,
           w.p.lock = f => pc \in Holding /\ (pc \in {"sending", "reading"} => w.c.kept)
    PROVE  /\ Puts(w, At(w, f, pc), f) /\ At(w, f, pc).c = w.c /\ At(w, f, pc).p = w.p
           /\ At(w, f, pc).f[f].pc = pc /\ At(w, f, pc).f[f].live = w.f[f].live
           /\ Shown(w) => Shown(At(w, f, pc))
<1> DEFINE v == At(w, f, pc)
           o == [w.f[f] EXCEPT !.pc = pc]
<1>1. w \in World /\ w.f \in [Flows -> Operation] /\ w.f[f] \in Operation BY DEF Sound, World
<1>2. v.c = w.c /\ v.p = w.p /\ v.f = [w.f EXCEPT ![f] = o] BY <1>1 DEF At, World
<1>3. v = [w EXCEPT !.f = v.f] BY <1>1, <1>2 DEF At, World
<1>4. /\ o \in Operation /\ o.pc = pc /\ o.kind = w.f[f].kind /\ o.live = w.f[f].live
      /\ o.waiter = w.f[f].waiter
    BY <1>1 DEF Operation
<1> HIDE DEF v, o
<1>5. v.f \in [Flows -> Operation] /\ v.f[f] = o /\ \A g \in Flows : g # f => v.f[g] = w.f[g]
    BY <1>1, <1>2, <1>4
<1>6. v \in World BY <1>1, <1>3, <1>5 DEF World
<1>7. Proper(o) BY <1>4 DEF Sound, Proper
<1>8. Edits(w, v, f) BY <1>2, <1>4, <1>5, <1>6, <1>7 DEF Edits
<1>9. Puts(w, v, f) BY <1>2, <1>8, EditPuts DEF Keeps
<1>10. Shown(w) => Shown(v) BY <1>2, <1>4, <1>5 DEF Shown, Calm
<1> QED BY <1>2, <1>4, <1>5, <1>9, <1>10 DEF v, o

LEMMA BegunPuts ==
    ASSUME NEW w, Sound(w), NEW f \in Flows, NEW k \in Kinds, w.c.probe # f, w.p.lock # f
    PROVE  /\ Puts(w, Begun(w, f, k), f) /\ Begun(w, f, k).c = w.c /\ Begun(w, f, k).p = w.p
           /\ Begun(w, f, k).f[f].live /\ Begun(w, f, k).f[f].kind = k
<1> DEFINE v == Begun(w, f, k)
           o == [NoFlow EXCEPT !.kind = k, !.live = TRUE]
<1>1. w \in World /\ w.f \in [Flows -> Operation] BY DEF Sound, World
<1>2. v.c = w.c /\ v.p = w.p /\ v.f = [w.f EXCEPT ![f] = o] BY <1>1 DEF Begun, World
<1>3. v = [w EXCEPT !.f = v.f] BY <1>1, <1>2 DEF Begun, World
<1>4. o \in Operation /\ o.pc = "free" /\ o.kind = k /\ o.live /\ ~o.waiter
    BY NoFlowFacts DEF Operation
<1> HIDE DEF v, o
<1>5. v.f \in [Flows -> Operation] /\ v.f[f] = o /\ \A g \in Flows : g # f => v.f[g] = w.f[g]
    BY <1>1, <1>2, <1>4
<1>6. v \in World BY <1>1, <1>3, <1>5 DEF World
<1>7. Proper(o) BY <1>4 DEF Proper
<1>8. Edits(w, v, f) BY <1>2, <1>4, <1>5, <1>6, <1>7 DEF Edits
<1>9. Puts(w, v, f) BY <1>2, <1>8, EditPuts DEF Keeps
<1> QED BY <1>2, <1>4, <1>5, <1>9 DEF v

LEMMA PutsPuts ==
    ASSUME NEW u, NEW v, NEW w, NEW f, Puts(u, v, f), Puts(v, w, f) PROVE Puts(u, w, f)
BY DEF Puts, Keeps

LEMMA FreesPuts ==
    ASSUME NEW w, NEW v \in World, NEW f, Sound(w), Frees(w, v)
    PROVE  Puts(w, v, f) /\ Sound(v) /\ v.f = w.f /\ v.c.probe = w.c.probe
<1>1. Sound(v) /\ Keeps(w, v) BY FreesKeeps
<1> QED BY <1>1 DEF Frees, Puts

\* A change of the controller that no invariant speaks of.
LEMMA FieldKeeps ==
    ASSUME NEW w, Sound(w), NEW b \in BOOLEAN, NEW d \in Flows \cup {None}
    PROVE  /\ [w EXCEPT !.c.running = b] \in World /\ Frees(w, [w EXCEPT !.c.running = b])
           /\ [w EXCEPT !.c.hasPort = b] \in World /\ Frees(w, [w EXCEPT !.c.hasPort = b])
           /\ [w EXCEPT !.c.dialog = d] \in World /\ Frees(w, [w EXCEPT !.c.dialog = d])
           /\ [w EXCEPT !.p.open = b] \in World /\ Frees(w, [w EXCEPT !.p.open = b])
           /\ [w EXCEPT !.p.stub = b] \in World /\ Frees(w, [w EXCEPT !.p.stub = b])
           /\ [w EXCEPT !.c.running = b].p = w.p /\ [w EXCEPT !.c.hasPort = b].p = w.p
           /\ [w EXCEPT !.c.dialog = d].p = w.p
           /\ [w EXCEPT !.p.open = b].p.lock = w.p.lock /\ [w EXCEPT !.p.stub = b].p.lock = w.p.lock
<1>1. w \in World /\ w.c \in Controller /\ w.p \in Serial BY DEF Sound, World
<1>2. /\ [w EXCEPT !.c.running = b] \in World /\ Frees(w, [w EXCEPT !.c.running = b])
      /\ [w EXCEPT !.c.running = b].p = w.p
  <2> DEFINE v == [w EXCEPT !.c.running = b]
  <2>1. v.c = [w.c EXCEPT !.running = b] /\ v.f = w.f /\ v.p = w.p /\ v = [w EXCEPT !.c = v.c]
      BY <1>1 DEF World
  <2> HIDE DEF v
  <2>2. /\ v.c \in Controller /\ v.c.probe = w.c.probe /\ v.c.screen = w.c.screen
        /\ v.c.kept = w.c.kept
      BY <1>1, <2>1 DEF Controller
  <2>3. v \in World BY <1>1, <2>1, <2>2 DEF World
  <2>4. Frees(w, v) /\ v.p = w.p BY <2>1, <2>2 DEF Frees
  <2> QED BY <2>3, <2>4 DEF v
<1>3. /\ [w EXCEPT !.c.hasPort = b] \in World /\ Frees(w, [w EXCEPT !.c.hasPort = b])
      /\ [w EXCEPT !.c.hasPort = b].p = w.p
  <2> DEFINE v == [w EXCEPT !.c.hasPort = b]
  <2>1. v.c = [w.c EXCEPT !.hasPort = b] /\ v.f = w.f /\ v.p = w.p /\ v = [w EXCEPT !.c = v.c]
      BY <1>1 DEF World
  <2> HIDE DEF v
  <2>2. /\ v.c \in Controller /\ v.c.probe = w.c.probe /\ v.c.screen = w.c.screen
        /\ v.c.kept = w.c.kept
      BY <1>1, <2>1 DEF Controller
  <2>3. v \in World BY <1>1, <2>1, <2>2 DEF World
  <2>4. Frees(w, v) /\ v.p = w.p BY <2>1, <2>2 DEF Frees
  <2> QED BY <2>3, <2>4 DEF v
<1>4. /\ [w EXCEPT !.c.dialog = d] \in World /\ Frees(w, [w EXCEPT !.c.dialog = d])
      /\ [w EXCEPT !.c.dialog = d].p = w.p
  <2> DEFINE v == [w EXCEPT !.c.dialog = d]
  <2>1. v.c = [w.c EXCEPT !.dialog = d] /\ v.f = w.f /\ v.p = w.p /\ v = [w EXCEPT !.c = v.c]
      BY <1>1 DEF World
  <2> HIDE DEF v
  <2>2. /\ v.c \in Controller /\ v.c.probe = w.c.probe /\ v.c.screen = w.c.screen
        /\ v.c.kept = w.c.kept
      BY <1>1, <2>1 DEF Controller
  <2>3. v \in World BY <1>1, <2>1, <2>2 DEF World
  <2>4. Frees(w, v) /\ v.p = w.p BY <2>1, <2>2 DEF Frees
  <2> QED BY <2>3, <2>4 DEF v
<1>5. /\ [w EXCEPT !.p.open = b] \in World /\ Frees(w, [w EXCEPT !.p.open = b])
      /\ [w EXCEPT !.p.open = b].p.lock = w.p.lock
  <2> DEFINE v == [w EXCEPT !.p.open = b]
  <2>1. v.p = [w.p EXCEPT !.open = b] /\ v.f = w.f /\ v.c = w.c /\ v = [w EXCEPT !.p = v.p]
      BY <1>1 DEF World
  <2> HIDE DEF v
  <2>2. v.p \in Serial /\ v.p.lock = w.p.lock BY <1>1, <2>1 DEF Serial
  <2>3. v \in World BY <1>1, <2>1, <2>2 DEF World
  <2>4. Frees(w, v) BY <2>1, <2>2 DEF Frees
  <2> QED BY <2>2, <2>3, <2>4 DEF v
<1>6. /\ [w EXCEPT !.p.stub = b] \in World /\ Frees(w, [w EXCEPT !.p.stub = b])
      /\ [w EXCEPT !.p.stub = b].p.lock = w.p.lock
  <2> DEFINE v == [w EXCEPT !.p.stub = b]
  <2>1. v.p = [w.p EXCEPT !.stub = b] /\ v.f = w.f /\ v.c = w.c /\ v = [w EXCEPT !.p = v.p]
      BY <1>1 DEF World
  <2> HIDE DEF v
  <2>2. v.p \in Serial /\ v.p.lock = w.p.lock BY <1>1, <2>1 DEF Serial
  <2>3. v \in World BY <1>1, <2>1, <2>2 DEF World
  <2>4. Frees(w, v) BY <2>1, <2>2 DEF Frees
  <2> QED BY <2>2, <2>3, <2>4 DEF v
<1> QED BY <1>2, <1>3, <1>4, <1>5, <1>6

\* A change of what an operation remembers for itself.
LEMMA OpPuts ==
    ASSUME NEW w, Sound(w), NEW f \in Flows, NEW v \in World, NEW o \in Operation,
           v.c = w.c, v.p = w.p, v.f[f] = o, \A g \in Flows : g # f => v.f[g] = w.f[g],
           o.live = w.f[f].live, o.waiter = w.f[f].waiter, o.kind = w.f[f].kind, o.pc = w.f[f].pc
    PROVE  Puts(w, v, f) /\ (Shown(w) => Shown(v))
<1>1. w.f \in [Flows -> Operation] /\ v.f \in [Flows -> Operation] BY DEF Sound, World
<1>2. v.f = [w.f EXCEPT ![f] = v.f[f]] BY <1>1
<1>6. Proper(o) BY DEF Sound, Proper
<1>7. Edits(w, v, f)
  <2>1. w.c.probe = f => o.pc \in Probing BY UsbAssumption DEF Sound
  <2>2. w.p.lock = f => /\ o.pc \in Holding
                        /\ o.pc \in {"sending", "reading"} => w.c.kept
      BY DEF Sound
  <2> QED BY <1>2, <1>6, <2>1, <2>2 DEF Edits
<1>8. Puts(w, v, f) BY <1>7, EditPuts DEF Keeps
<1>9. Shown(w) => Shown(v) BY DEF Shown, Calm
<1> QED BY <1>8, <1>9

LEMMA OpenedPuts ==
    ASSUME NEW w, Sound(w), NEW f \in Flows, NEW b \in BOOLEAN
    PROVE  LET v == [w EXCEPT !.f[f].opened = b]
           IN  /\ Puts(w, v, f) /\ v.c = w.c /\ v.p = w.p
               /\ v.f[f].pc = w.f[f].pc /\ v.f[f].live = w.f[f].live
               /\ v.f[f].kind = w.f[f].kind
               /\ Shown(w) => Shown(v)
<1> DEFINE v == [w EXCEPT !.f[f].opened = b]
           o == [w.f[f] EXCEPT !.opened = b]
<1>1. w \in World /\ w.f \in [Flows -> Operation] /\ w.f[f] \in Operation BY DEF Sound, World
<1>2. /\ o \in Operation /\ o.live = w.f[f].live /\ o.waiter = w.f[f].waiter
      /\ o.kind = w.f[f].kind /\ o.pc = w.f[f].pc
    BY <1>1 DEF Operation
<1>3. v.c = w.c /\ v.p = w.p /\ v.f = [w.f EXCEPT ![f] = o] /\ v = [w EXCEPT !.f = v.f]
    BY <1>1 DEF World
<1> HIDE DEF o, v
<1>4. v.f \in [Flows -> Operation] /\ v.f[f] = o /\ \A g \in Flows : g # f => v.f[g] = w.f[g]
    BY <1>1, <1>2, <1>3
<1>5. v \in World BY <1>1, <1>3, <1>4 DEF World
<1>6. Puts(w, v, f) /\ (Shown(w) => Shown(v)) BY <1>2, <1>3, <1>4, <1>5, OpPuts
<1> QED BY <1>2, <1>3, <1>4, <1>6 DEF v

LEMMA OrigPuts ==
    ASSUME NEW w, Sound(w), NEW f \in Flows, NEW b \in BOOLEAN
    PROVE  LET v == [w EXCEPT !.f[f].orig = b]
           IN  /\ Puts(w, v, f) /\ v.c = w.c /\ v.p = w.p
               /\ v.f[f].pc = w.f[f].pc /\ v.f[f].live = w.f[f].live
               /\ v.f[f].kind = w.f[f].kind
               /\ Shown(w) => Shown(v)
<1> DEFINE v == [w EXCEPT !.f[f].orig = b]
           o == [w.f[f] EXCEPT !.orig = b]
<1>1. w \in World /\ w.f \in [Flows -> Operation] /\ w.f[f] \in Operation BY DEF Sound, World
<1>2. /\ o \in Operation /\ o.live = w.f[f].live /\ o.waiter = w.f[f].waiter
      /\ o.kind = w.f[f].kind /\ o.pc = w.f[f].pc
    BY <1>1 DEF Operation
<1>3. v.c = w.c /\ v.p = w.p /\ v.f = [w.f EXCEPT ![f] = o] /\ v = [w EXCEPT !.f = v.f]
    BY <1>1 DEF World
<1> HIDE DEF o, v
<1>4. v.f \in [Flows -> Operation] /\ v.f[f] = o /\ \A g \in Flows : g # f => v.f[g] = w.f[g]
    BY <1>1, <1>2, <1>3
<1>5. v \in World BY <1>1, <1>3, <1>4 DEF World
<1>6. Puts(w, v, f) /\ (Shown(w) => Shown(v)) BY <1>2, <1>3, <1>4, <1>5, OpPuts
<1> QED BY <1>2, <1>3, <1>4, <1>6 DEF v

LEMMA VariantPuts ==
    ASSUME NEW w, Sound(w), NEW f \in Flows, NEW x \in Variants
    PROVE  LET v == [w EXCEPT !.f[f].variant = x]
           IN  /\ Puts(w, v, f) /\ v.c = w.c /\ v.p = w.p
               /\ v.f[f].pc = w.f[f].pc /\ v.f[f].live = w.f[f].live
               /\ v.f[f].kind = w.f[f].kind
               /\ Shown(w) => Shown(v)
<1> DEFINE v == [w EXCEPT !.f[f].variant = x]
           o == [w.f[f] EXCEPT !.variant = x]
<1>1. w \in World /\ w.f \in [Flows -> Operation] /\ w.f[f] \in Operation BY DEF Sound, World
<1>2. /\ o \in Operation /\ o.live = w.f[f].live /\ o.waiter = w.f[f].waiter
      /\ o.kind = w.f[f].kind /\ o.pc = w.f[f].pc
    BY <1>1 DEF Operation
<1>3. v.c = w.c /\ v.p = w.p /\ v.f = [w.f EXCEPT ![f] = o] /\ v = [w EXCEPT !.f = v.f]
    BY <1>1 DEF World
<1> HIDE DEF o, v
<1>4. v.f \in [Flows -> Operation] /\ v.f[f] = o /\ \A g \in Flows : g # f => v.f[g] = w.f[g]
    BY <1>1, <1>2, <1>3
<1>5. v \in World BY <1>1, <1>3, <1>4 DEF World
<1>6. Puts(w, v, f) /\ (Shown(w) => Shown(v)) BY <1>2, <1>3, <1>4, <1>5, OpPuts
<1> QED BY <1>2, <1>3, <1>4, <1>6 DEF v

LEMMA AttemptPuts ==
    ASSUME NEW w, Sound(w), NEW f \in Flows, NEW n \in 1..MaxAttempts
    PROVE  LET v == [w EXCEPT !.f[f].attempt = n]
           IN  /\ Puts(w, v, f) /\ v.c = w.c /\ v.p = w.p
               /\ v.f[f].pc = w.f[f].pc /\ v.f[f].live = w.f[f].live
               /\ v.f[f].kind = w.f[f].kind
               /\ Shown(w) => Shown(v)
<1> DEFINE v == [w EXCEPT !.f[f].attempt = n]
           o == [w.f[f] EXCEPT !.attempt = n]
<1>1. w \in World /\ w.f \in [Flows -> Operation] /\ w.f[f] \in Operation BY DEF Sound, World
<1>2. /\ o \in Operation /\ o.live = w.f[f].live /\ o.waiter = w.f[f].waiter
      /\ o.kind = w.f[f].kind /\ o.pc = w.f[f].pc
    BY <1>1 DEF Operation
<1>3. v.c = w.c /\ v.p = w.p /\ v.f = [w.f EXCEPT ![f] = o] /\ v = [w EXCEPT !.f = v.f]
    BY <1>1 DEF World
<1> HIDE DEF o, v
<1>4. v.f \in [Flows -> Operation] /\ v.f[f] = o /\ \A g \in Flows : g # f => v.f[g] = w.f[g]
    BY <1>1, <1>2, <1>3
<1>5. v \in World BY <1>1, <1>3, <1>4 DEF World
<1>6. Puts(w, v, f) /\ (Shown(w) => Shown(v)) BY <1>2, <1>3, <1>4, <1>5, OpPuts
<1> QED BY <1>2, <1>3, <1>4, <1>6 DEF v

LEMMA ShowPuts ==
    ASSUME NEW w, Sound(w), NEW s \in Steps, NEW f
    PROVE  /\ Puts(w, Show(w, s), f) /\ Show(w, s).f = w.f /\ Show(w, s).p = w.p
           /\ Show(w, s).c.screen.step = s /\ Show(w, s).c.probe = w.c.probe
           /\ Show(w, s).c.kept = w.c.kept /\ Show(w, s).c.dialog = w.c.dialog
           /\ Show(w, s).c.hasPort = w.c.hasPort
           /\ s \notin Working => Calm(Show(w, s))
<1>1. /\ Sound(Show(w, s)) /\ Show(w, s).c.screen.step = s
      /\ Show(w, s).f = w.f /\ Show(w, s).p = w.p
      /\ Show(w, s).c = [w.c EXCEPT !.screen = [NoScreen EXCEPT !.step = s]]
    BY ShowKeeps
<1>2. w.c \in Controller BY DEF Sound, World
<1> QED BY <1>1, <1>2 DEF Controller, Puts, Keeps, Calm

LEMMA WakePuts ==
    ASSUME NEW w, Sound(w), NEW f \in Flows, NEW pc \in {"scanWakes", "checkWakes"},
           w.f[f].kind = "rescan" => pc = "scanWakes",
           w.c.probe = f => pc = "checkWakes", w.p.lock # f
    PROVE  /\ Puts(w, Wake(w, f, pc), f) /\ Wake(w, f, pc).c = w.c
           /\ Wake(w, f, pc).p.lock = w.p.lock
           /\ Wake(w, f, pc).f[f].live = w.f[f].live /\ Wake(w, f, pc).f[f].pc = pc
<1> DEFINE u == [w EXCEPT !.p.open = TRUE]
<1>1. u \in World /\ Frees(w, u) /\ u.p.lock = w.p.lock
    BY FieldKeeps, UsbAssumption
<1>2. Sound(u) /\ Puts(w, u, f) BY <1>1, FreesPuts DEF Puts
<1>3. u.f = w.f /\ u.c.probe = w.c.probe /\ u.c = w.c BY <1>1 DEF Frees, Sound, World
<1>4. Wake(w, f, pc) = At(u, f, pc) BY DEF Wake, At, u
<1> HIDE DEF u
<1>5. /\ Puts(u, At(u, f, pc), f) /\ At(u, f, pc).c = u.c /\ At(u, f, pc).p = u.p
      /\ At(u, f, pc).f[f].live = u.f[f].live /\ At(u, f, pc).f[f].pc = pc
  <2>1. pc \in Places \ {"free"} /\ (u.c.probe = f => pc \in Probing)
      BY <1>3 DEF Places, Probing
  <2>2. u.f[f].kind = "rescan" => pc \in {"scanWakes", "scanning"} BY <1>3
  <2>3. u.p.lock # f BY <1>1
  <2> QED BY <1>2, <2>1, <2>2, <2>3, AtPuts
<1> QED BY <1>1, <1>2, <1>3, <1>4, <1>5, PutsPuts

LEMMA ScanPuts ==
    ASSUME NEW w, Sound(w), NEW f \in Flows, w.c.probe # f, w.p.lock # f, w.f[f].live
    PROVE  /\ Puts(w, Scan(w, f), f) /\ Scan(w, f).f[f].live /\ Scan(w, f).f[f].pc = "scanWakes"
<1> DEFINE s == Show(w, "wifi_scan")
<1>1. Puts(w, s, f) /\ s.f = w.f /\ s.p = w.p /\ s.c.probe = w.c.probe BY ShowPuts DEF Steps
<1> HIDE DEF s
<1>2. Sound(s) BY <1>1 DEF Puts
<1>3. /\ Puts(s, Wake(s, f, "scanWakes"), f) /\ Wake(s, f, "scanWakes").f[f].live
      /\ Wake(s, f, "scanWakes").f[f].pc = "scanWakes"
    BY <1>1, <1>2, WakePuts
<1> QED BY <1>1, <1>3, PutsPuts DEF Scan, s

LEMMA AddPuts ==
    ASSUME NEW w, Sound(w), NEW f \in Flows, w.c.probe # f, w.p.lock # f, w.f[f].live,
           w.f[f].kind # "rescan"
    PROVE  Puts(w, AddToHa(w, f), f) /\ AddToHa(w, f).f[f].live /\ AddToHa(w, f).f[f].pc = "adding"
<1> DEFINE s == Show(w, "adding")
           a == At(s, f, "adding")
           v == [a EXCEPT !.f[f].attempt = 1]
<1>1. Puts(w, s, f) /\ s.f = w.f /\ s.p = w.p /\ s.c.probe = w.c.probe BY ShowPuts DEF Steps
<1> HIDE DEF s
<1>2. Sound(s) BY <1>1 DEF Puts
<1>3. Puts(s, a, f) /\ a.f[f].live /\ a.f[f].pc = "adding"
    BY <1>1, <1>2, AtPuts DEF Places
<1>4. AddToHa(w, f) = v BY DEF AddToHa, At, s
<1> HIDE DEF a
<1>5. Sound(a) BY <1>3 DEF Puts
<1>6. Puts(a, v, f) /\ v.f[f].pc = a.f[f].pc /\ v.f[f].live = a.f[f].live
  <2>1. 1 \in 1..MaxAttempts BY UsbAssumption
  <2> QED BY <1>5, <2>1, AttemptPuts
<1> QED BY <1>1, <1>3, <1>4, <1>6, PutsPuts

\* An operation takes the streams, or asks the device.
LEMMA LockPuts ==
    ASSUME NEW w, Sound(w), NEW f \in Flows, w.f[f].pc \in Holding,
           w.f[f].pc \in {"sending", "reading"} => w.c.kept
    PROVE  LET v == [w EXCEPT !.p.lock = f] IN Puts(w, v, f) /\ v.c = w.c /\ v.f = w.f
<1> DEFINE v == [w EXCEPT !.p.lock = f]
<1>1. w \in World /\ w.p \in Serial BY DEF Sound, World
<1>2. v.p = [w.p EXCEPT !.lock = f] /\ v.c = w.c /\ v.f = w.f /\ v = [w EXCEPT !.p = v.p]
    BY <1>1 DEF World
<1> HIDE DEF v
<1>3. v.p \in Serial /\ v.p.lock = f BY <1>1, <1>2 DEF Serial
<1>4. v \in World BY <1>1, <1>2, <1>3 DEF World
<1>5. Sound(v) BY <1>2, <1>3, <1>4 DEF Sound
<1>6. f # "lost" BY UsbAssumption
<1> QED BY <1>2, <1>3, <1>5, <1>6 DEF v, Puts, Keeps

LEMMA ProbePuts ==
    ASSUME NEW w, Sound(w), NEW f \in Flows, w.f[f].pc \in Probing
    PROVE  LET v == [w EXCEPT !.c.probe = f] IN Puts(w, v, f) /\ v.p = w.p /\ v.f = w.f
<1> DEFINE v == [w EXCEPT !.c.probe = f]
<1>1. w \in World /\ w.c \in Controller BY DEF Sound, World
<1>2. v.c = [w.c EXCEPT !.probe = f] /\ v.p = w.p /\ v.f = w.f /\ v = [w EXCEPT !.c = v.c]
    BY <1>1 DEF World
<1> HIDE DEF v
<1>3. v.c \in Controller /\ v.c.probe = f /\ v.c.kept = w.c.kept BY <1>1, <1>2 DEF Controller
<1>4. v \in World BY <1>1, <1>2, <1>3 DEF World
<1>5. Sound(v) BY <1>2, <1>3, <1>4 DEF Sound
<1> QED BY <1>2, <1>5 DEF v, Puts, Keeps

LEMMA KeptPuts ==
    ASSUME NEW w, Sound(w), NEW f
    PROVE  LET v == [w EXCEPT !.c.kept = TRUE]
           IN  /\ Puts(w, v, f) /\ v.p = w.p /\ v.f = w.f /\ v.c.kept
               /\ v.c.probe = w.c.probe /\ v.c.screen = w.c.screen
<1> DEFINE v == [w EXCEPT !.c.kept = TRUE]
<1>1. w \in World /\ w.c \in Controller BY DEF Sound, World
<1>2. v.c = [w.c EXCEPT !.kept = TRUE] /\ v.p = w.p /\ v.f = w.f /\ v = [w EXCEPT !.c = v.c]
    BY <1>1 DEF World
<1> HIDE DEF v
<1>3. v.c \in Controller /\ v.c.probe = w.c.probe /\ v.c.kept /\ v.c.screen = w.c.screen
    BY <1>1, <1>2 DEF Controller
<1>4. v \in World BY <1>1, <1>2, <1>3 DEF World
<1>5. Sound(v) BY <1>2, <1>3, <1>4 DEF Sound
<1> QED BY <1>2, <1>3, <1>5 DEF v, Puts, Keeps

\* The controller forgets its probe.
LEMMA NoProbeKeeps ==
    ASSUME NEW w, Sound(w)
    PROVE  LET v == [w EXCEPT !.c.probe = None]
           IN  /\ Sound(v) /\ v.p = w.p /\ v.f = w.f /\ v.c.kept = w.c.kept
               /\ v.c.screen = w.c.screen /\ v.c.probe = None
<1> DEFINE v == [w EXCEPT !.c.probe = None]
<1>1. w \in World /\ w.c \in Controller BY DEF Sound, World
<1>2. v.c = [w.c EXCEPT !.probe = None] /\ v.p = w.p /\ v.f = w.f /\ v = [w EXCEPT !.c = v.c]
    BY <1>1 DEF World
<1> HIDE DEF v
<1>3. /\ v.c \in Controller /\ v.c.probe = None /\ v.c.kept = w.c.kept
      /\ v.c.screen = w.c.screen
    BY <1>1, <1>2 DEF Controller
<1>4. v \in World BY <1>1, <1>2, <1>3 DEF World
<1>5. Sound(v) BY <1>2, <1>3, <1>4 DEF Sound
<1> QED BY <1>2, <1>3, <1>5 DEF v

LEMMA AwakePuts ==
    ASSUME NEW w, Sound(w), NEW f \in Flows, NEW pc \in {"scanning", "checking"},
           w.f[f].kind = "rescan" => pc = "scanning",
           w.c.probe = f => pc = "checking", w.p.lock # f
    PROVE  /\ Puts(w, Awake(w, f, pc), f) /\ Awake(w, f, pc).f[f].pc = pc
           /\ Shown(w) => Shown(Awake(w, f, pc))
<1> DEFINE a == At(w, f, pc)
           v == [a EXCEPT !.p.lock = f]
<1>1. pc \in Places \ {"free"} /\ pc \in Holding BY DEF Places, Holding
<1>2. w.c.probe = f => pc \in Probing BY DEF Probing
<1>3. w.f[f].kind = "rescan" => pc \in {"scanWakes", "scanning"} OBVIOUS
<1>4. Puts(w, a, f) /\ a.c = w.c /\ a.f[f].pc = pc /\ (Shown(w) => Shown(a))
    BY <1>1, <1>2, <1>3, AtPuts
<1>5. Awake(w, f, pc) = v
  <2>1. w \in World BY DEF Sound
  <2> QED BY <2>1 DEF Awake, At, World
<1> HIDE DEF a
<1>6. Sound(a) /\ a.f[f].pc \in Holding /\ a.f[f].pc \notin {"sending", "reading"}
    BY <1>1, <1>4 DEF Puts
<1>7. Puts(a, v, f) /\ v.c = a.c /\ v.f = a.f BY <1>6, LockPuts
<1>8. Shown(a) => Shown(v) BY <1>7 DEF Shown, Calm
<1> QED BY <1>4, <1>5, <1>7, <1>8, PutsPuts

LEMMA DisconnectKeeps ==
    ASSUME NEW w, Sound(w), NEW f \in Flows
    PROVE  /\ Disconnect(w, f) \in World /\ Frees(w, Disconnect(w, f))
           /\ Disconnect(w, f).p.lock # f
<1> DEFINE u == Free(w, f)
           b == w.f[f].orig
<1>1. u \in World /\ Frees(w, u) /\ u.p.lock # f BY FreeKeeps
<1>2. Sound(u) BY <1>1, FreesKeeps
<1>3. b \in BOOLEAN BY DEF Sound, World, Operation
<1> HIDE DEF u, b
<1>4. /\ [u EXCEPT !.p.stub = b] \in World /\ Frees(u, [u EXCEPT !.p.stub = b])
      /\ [u EXCEPT !.p.stub = b].p.lock = u.p.lock
    BY <1>2, <1>3, UsbAssumption, FieldKeeps
<1>5. Disconnect(w, f) = [u EXCEPT !.p.stub = b] BY DEF Disconnect, u, b
<1> QED BY <1>1, <1>4, <1>5, FreesFrees

LEMMA BeginFlashPuts ==
    ASSUME NEW w, Sound(w), NEW f \in Flows, w.c.probe # f, w.p.lock # f, w.f[f].live,
           w.f[f].kind # "rescan"
    PROVE  /\ Puts(w, BeginFlash(w, f), f) /\ BeginFlash(w, f).f[f].live
           /\ BeginFlash(w, f).f[f].pc # "free"
<1> DEFINE s == Show(w, "flashing")
           h == [s EXCEPT !.c.hasPort = TRUE]
           p == [h EXCEPT !.p.stub = TRUE]
           b == [p EXCEPT !.f[f].orig = w.p.stub]
           a == At(b, f, "loading")
           o == [a EXCEPT !.p.open = TRUE]
           v == [o EXCEPT !.p.lock = f]
<1>1. BeginFlash(w, f) = IF w.p.open THEN At(b, f, "refused") ELSE v BY DEF BeginFlash
<1>2. w.p.stub \in BOOLEAN BY DEF Sound, World, Serial
<1>3. Puts(w, s, f) /\ s.f = w.f /\ s.p = w.p /\ s.c.probe = w.c.probe BY ShowPuts DEF Steps
<1> HIDE DEF s
<1>4. Puts(s, h, f) /\ h.f = s.f /\ h.p = s.p /\ h.c.probe = s.c.probe
  <2>1. Sound(s) BY <1>3 DEF Puts
  <2>2. h \in World /\ Frees(s, h) /\ h.p = s.p BY <2>1, FieldKeeps, UsbAssumption
  <2> QED BY <2>1, <2>2, FreesPuts DEF Frees
<1> HIDE DEF h
<1>5. Puts(h, p, f) /\ p.f = h.f /\ p.p.lock = h.p.lock /\ p.c.probe = h.c.probe
  <2>1. Sound(h) BY <1>4 DEF Puts
  <2>2. p \in World /\ Frees(h, p) /\ p.p.lock = h.p.lock BY <2>1, FieldKeeps, UsbAssumption
  <2> QED BY <2>1, <2>2, FreesPuts DEF Frees
<1> HIDE DEF p
<1>6. /\ Puts(p, b, f) /\ b.c = p.c /\ b.p = p.p /\ b.f[f].live = p.f[f].live
      /\ b.f[f].kind = p.f[f].kind
  <2>1. Sound(p) BY <1>5 DEF Puts
  <2> QED BY <2>1, <1>2, OrigPuts
<1> HIDE DEF b
<1>7. Sound(b) /\ Puts(w, b, f) BY <1>3, <1>4, <1>5, <1>6, PutsPuts DEF Puts
<1>8. b.c.probe # f /\ b.p.lock # f /\ b.f[f].live /\ b.f[f].kind # "rescan"
    BY <1>3, <1>4, <1>5, <1>6
<1>9. CASE w.p.open
  <2>1. /\ Puts(b, At(b, f, "refused"), f) /\ At(b, f, "refused").f[f].pc = "refused"
        /\ At(b, f, "refused").f[f].live = b.f[f].live
    <3>1. "refused" \in Places \ {"free"} BY DEF Places
    <3>2. Sound(b) BY <1>7
    <3>3. b.f[f].kind = "rescan" => "refused" \in {"scanWakes", "scanning"} BY <1>8
    <3>4. b.c.probe = f => "refused" \in Probing BY <1>8
    <3>5. b.p.lock = f => /\ "refused" \in Holding
                          /\ "refused" \in {"sending", "reading"} => b.c.kept
        BY <1>8
    <3> QED BY <3>1, <3>2, <3>3, <3>4, <3>5, AtPuts
  <2> QED BY <1>1, <1>7, <1>8, <1>9, <2>1, PutsPuts
<1>10. CASE ~w.p.open
  <2>1. Puts(b, a, f) /\ a.f[f].pc = "loading" /\ a.f[f].live = b.f[f].live
    <3>1. "loading" \in Places \ {"free"} BY DEF Places, Holding
    <3>2. Sound(b) BY <1>7
    <3>3. b.f[f].kind = "rescan" => "loading" \in {"scanWakes", "scanning"} BY <1>8
    <3>4. b.c.probe = f => "loading" \in Probing BY <1>8
    <3>5. b.p.lock = f => /\ "loading" \in Holding
                          /\ "loading" \in {"sending", "reading"} => b.c.kept
        BY <1>8
    <3> QED BY <3>1, <3>2, <3>3, <3>4, <3>5, AtPuts
  <2> HIDE DEF a
  <2>2. Puts(a, o, f) /\ o.f = a.f
    <3>1. Sound(a) BY <2>1 DEF Puts
    <3>2. o \in World /\ Frees(a, o) BY <3>1, FieldKeeps, UsbAssumption
    <3> QED BY <3>1, <3>2, FreesPuts DEF Frees
  <2> HIDE DEF o
  <2>3. Puts(o, v, f) /\ v.f = o.f
    <3>1. Sound(o) /\ o.f[f].pc \in Holding /\ o.f[f].pc \notin {"sending", "reading"}
        BY <2>1, <2>2 DEF Puts, Holding
    <3> QED BY <3>1, LockPuts
  <2> HIDE DEF v
  <2>4. Puts(w, v, f) BY <1>7, <2>1, <2>2, <2>3, PutsPuts
  <2>5. v.f[f].pc = "loading" /\ v.f[f].live BY <1>8, <2>1, <2>2, <2>3
  <2> QED BY <1>1, <1>10, <2>4, <2>5
<1> QED BY <1>9, <1>10

LEMMA GoesPuts ==
    ASSUME NEW w, Sound(w), NEW f \in Flows, NEW pc \in Places \ {"free"},
           w.f[f].kind # "rescan", w.c.probe # f, w.p.lock # f
    PROVE  /\ Puts(w, At(w, f, pc), f) /\ At(w, f, pc).c = w.c /\ At(w, f, pc).p = w.p
           /\ At(w, f, pc).f[f].pc = pc /\ At(w, f, pc).f[f].live = w.f[f].live
           /\ Shown(w) => Shown(At(w, f, pc))
<1>1. w.f[f].kind = "rescan" => pc \in {"scanWakes", "scanning"} OBVIOUS
<1>2. w.c.probe = f => pc \in Probing OBVIOUS
<1>3. w.p.lock = f => pc \in Holding /\ (pc \in {"sending", "reading"} => w.c.kept) OBVIOUS
<1> QED BY <1>1, <1>2, <1>3, AtPuts

\* From w to v all is well, whatever the operations in between.
Fine(w, v) == Sound(v) /\ Shown(v) /\ Keeps(w, v) /\ (Real(w) => Real(v))

LEMMA LiveFine ==
    ASSUME NEW w, NEW v, NEW f \in Flows, Puts(w, v, f), v.f[f].live, v.f[f].pc # "free"
    PROVE  Fine(w, v)
BY PutReal DEF Fine, Puts, Shown

LEMMA PutsFine ==
    ASSUME NEW w, NEW v, NEW f \in Flows, Puts(w, v, f), Shown(v), v.f[f].pc # "free"
    PROVE  Fine(w, v)
BY PutReal DEF Fine, Puts

LEMMA FreesFine ==
    ASSUME NEW w, NEW v \in World, Sound(w), Frees(w, v), Shown(w) PROVE Fine(w, v)
BY FreesKeeps DEF Fine

LEMMA FineFine == ASSUME NEW u, NEW v, NEW w, Fine(u, v), Fine(v, w) PROVE Fine(u, w)
BY DEF Fine, Keeps

LEMMA BusyFine ==
    ASSUME NEW w, Sound(w)
    PROVE  Fine(w, Busy(w)) /\ Calm(Busy(w)) /\ Busy(w).f = w.f /\ Busy(w).p = w.p
           /\ Busy(w).c.probe = w.c.probe
<1>1. /\ Sound(ShowError(w, "none", "wifi")) /\ Calm(ShowError(w, "none", "wifi"))
      /\ ShowError(w, "none", "wifi").f = w.f /\ ShowError(w, "none", "wifi").p = w.p
      /\ ShowError(w, "none", "wifi").c.probe = w.c.probe
    BY ErrorKeeps DEF Variants
<1> QED BY <1>1 DEF Busy, Fine, Shown, Keeps, Real

LEMMA ErrorFine ==
    ASSUME NEW w, Sound(w), NEW r \in {"none", "wifi", "flash"}, NEW v \in Variants
    PROVE  Fine(w, ShowError(w, r, v)) /\ Calm(ShowError(w, r, v))
           /\ ShowError(w, r, v).f = w.f /\ ShowError(w, r, v).p = w.p
           /\ ShowError(w, r, v).c.probe = w.c.probe
<1>1. /\ Sound(ShowError(w, r, v)) /\ Calm(ShowError(w, r, v))
      /\ ShowError(w, r, v).f = w.f /\ ShowError(w, r, v).p = w.p
      /\ ShowError(w, r, v).c.probe = w.c.probe
    BY ErrorKeeps
<1> QED BY <1>1 DEF Fine, Shown, Keeps, Real

LEMMA CalmFine ==
    ASSUME NEW w, Sound(w), NEW s \in Steps \ Working
    PROVE  Fine(w, Show(w, s)) /\ Calm(Show(w, s)) /\ Show(w, s).f = w.f /\ Show(w, s).p = w.p
           /\ Show(w, s).c.probe = w.c.probe /\ Show(w, s).c.kept = w.c.kept
<1>1. /\ Puts(w, Show(w, s), None) /\ Show(w, s).f = w.f /\ Show(w, s).p = w.p
      /\ Calm(Show(w, s)) /\ Show(w, s).c.probe = w.c.probe /\ Show(w, s).c.kept = w.c.kept
    BY ShowPuts
<1> QED BY <1>1 DEF Fine, Puts, Shown, Real

LEMMA ResetFine == ASSUME NEW w, Sound(w) PROVE Fine(w, ResetUsbState(w))
BY ResetKeeps DEF Fine

\* An operation returns without the streams, or with those the controller has.
LEMMA ReturnFine ==
    ASSUME NEW w, Sound(w), NEW f \in Flows, w.c.probe # f, w.p.lock # f \/ w.c.kept,
           Calm(w) \/ (Shown(w) /\ ~w.f[f].live)
    PROVE  Fine(w, Return(w, f))
<1>1. /\ Sound(Return(w, f)) /\ Shown(Return(w, f)) /\ (Real(w) => Real(Return(w, f)))
      /\ Return(w, f).p.lock = "lost" => w.p.lock = "lost" \/ (w.p.lock = f /\ ~w.c.kept)
    BY ReturnKeeps
<1> QED BY <1>1 DEF Fine, Keeps

\* A handler's catch block.
LEMMA FailsFine ==
    ASSUME NEW w, Sound(w), Shown(w), NEW f \in Flows, w.c.probe # f, w.p.lock # f
    PROVE  Fine(w, Fails(w, f))
<1> DEFINE r == IF w.f[f].kind = "rescan" THEN w ELSE NotRunning(w)
           m == IF w.f[f].kind = "flash" THEN CloseMine(r) ELSE r
           e == ShowError(m, RetryOf(w, w.f[f].kind), w.f[f].variant)
<1>1. r \in World /\ Frees(w, r) /\ r.p = w.p BY NotRunningKeeps DEF Frees, Sound
<1>2. Sound(r) /\ Fine(w, r) BY <1>1, FreesKeeps, FreesFine
<1>3. Fails(w, f) = IF ~w.f[f].live THEN Return(r, f) ELSE Return(e, f) BY DEF Fails
<1>4. w.f[f].variant \in Variants BY DEF Sound, World, Operation
<1> HIDE DEF r
<1>5. m \in World /\ Frees(r, m) /\ m.p.lock = r.p.lock
    BY <1>1, <1>2, CloseMineKeeps DEF Frees
<1> HIDE DEF m
<1>6. Sound(m) BY <1>2, <1>5, FreesKeeps
<1>7. RetryOf(w, w.f[f].kind) \in {"none", "wifi", "flash"} BY DEF RetryOf
<1>8. /\ Fine(m, e) /\ Calm(e) /\ e.f = m.f /\ e.p = m.p /\ e.c.probe = m.c.probe
    BY <1>4, <1>6, <1>7, ErrorFine
<1> HIDE DEF e
<1>9. CASE ~w.f[f].live
  <2>1. r.c.probe # f /\ r.p.lock # f /\ ~r.f[f].live /\ Shown(r)
      BY <1>1, <1>2, <1>9 DEF Frees, Fine
  <2>2. Fine(r, Return(r, f)) BY <1>2, <2>1, ReturnFine
  <2> QED BY <1>2, <1>3, <1>9, <2>2, FineFine
<1>10. CASE w.f[f].live
  <2>1. e.c.probe # f /\ e.p.lock # f BY <1>1, <1>5, <1>8 DEF Frees
  <2>2. Sound(e) BY <1>8 DEF Fine
  <2>3. Fine(e, Return(e, f)) BY <1>8, <2>1, <2>2, ReturnFine
  <2>4. Shown(r) BY <1>2 DEF Fine
  <2>5. Fine(r, m) BY <1>2, <1>5, <2>4, FreesFine
  <2> QED BY <1>2, <1>3, <1>8, <1>10, <2>3, <2>5, FineFine
<1> QED BY <1>9, <1>10

LEMMA EndPuts ==
    ASSUME NEW w, Sound(w), NEW f \in Flows, w.c.probe # f, w.p.lock # f
    PROVE  LET v == [w EXCEPT !.f[f] = NoFlow]
           IN  Puts(w, v, f) /\ v.c = w.c /\ (Real(w) => Real(v))
<1> DEFINE v == [w EXCEPT !.f[f] = NoFlow]
<1>1. w \in World /\ w.f \in [Flows -> Operation] BY DEF Sound, World
<1>2. v.c = w.c /\ v.p = w.p /\ v.f = [w.f EXCEPT ![f] = NoFlow] /\ v = [w EXCEPT !.f = v.f]
    BY <1>1 DEF World
<1> HIDE DEF v
<1>3. /\ v.f \in [Flows -> Operation] /\ v.f[f] = NoFlow
      /\ \A g \in Flows : g # f => v.f[g] = w.f[g]
    BY <1>1, <1>2, NoFlowFacts
<1>4. v \in World BY <1>1, <1>2, <1>3 DEF World
<1>5. Proper(NoFlow) BY NoFlowFacts DEF Proper
<1>6. Edits(w, v, f) BY <1>2, <1>3, <1>4, <1>5 DEF Edits
<1>7. Puts(w, v, f) BY <1>2, <1>6, EditPuts DEF Keeps
<1>8. Real(w) => Real(v) BY <1>3, NoFlowFacts DEF Real
<1> QED BY <1>2, <1>7, <1>8 DEF v

LEMMA ChoosePuts ==
    ASSUME NEW w, Sound(w), NEW f \in Flows, w.f[f].kind # "rescan", w.c.probe # f,
           w.p.lock # f, w.f[f].live
    PROVE  LET v == At(Show(w, "connecting"), f, "choosing")
           IN  Puts(w, v, f) /\ v.f[f].live /\ v.f[f].pc # "free"
<1> DEFINE s == Show(w, "connecting")
<1>1. Puts(w, s, f) /\ s.f = w.f /\ s.p = w.p /\ s.c.probe = w.c.probe BY ShowPuts DEF Steps
<1>2. Sound(s) BY <1>1 DEF Puts
<1> HIDE DEF s
<1>3. "choosing" \in Places \ {"free"} BY DEF Places
<1>4. s.f[f].kind # "rescan" /\ s.c.probe # f /\ s.p.lock # f BY <1>1
<1>5. /\ Puts(s, At(s, f, "choosing"), f) /\ At(s, f, "choosing").f[f].pc = "choosing"
      /\ At(s, f, "choosing").f[f].live = s.f[f].live
    BY <1>2, <1>3, <1>4, GoesPuts
<1> QED BY <1>1, <1>5, PutsPuts DEF s

LEMMA FlashFine ==
    ASSUME NEW w, Sound(w), NEW f \in Flows, NEW x \in Variants, w.c.probe # f, w.p.lock # f
    PROVE  Fine(w, Flash(w, f, x))
<1>1. CASE w.c.running
  <2> DEFINE b == Busy(w)
             v == [b EXCEPT !.f[f] = NoFlow]
  <2>1. Fine(w, b) /\ Calm(b) /\ b.p = w.p /\ b.c.probe = w.c.probe BY BusyFine
  <2>2. Sound(b) BY <2>1 DEF Fine
  <2>3. Flash(w, f, x) = v BY <1>1 DEF Flash
  <2> HIDE DEF b
  <2>4. Puts(b, v, f) /\ v.c = b.c /\ (Real(b) => Real(v)) BY <2>1, <2>2, EndPuts
  <2> HIDE DEF v
  <2>5. Fine(b, v) BY <2>1, <2>4 DEF Puts, Fine, Shown, Calm
  <2> QED BY <2>1, <2>3, <2>5, FineFine
<1>2. CASE ~w.c.running
  <2> DEFINE n == Begun(w, f, "flash")
             r == [n EXCEPT !.c.running = TRUE]
             b == [r EXCEPT !.f[f].variant = x]
  <2>1. Flash(w, f, x) = IF w.c.hasPort THEN BeginFlash(b, f)
                         ELSE At(Show(b, "connecting"), f, "choosing")
      BY <1>2 DEF Flash
  <2>2. /\ Puts(w, n, f) /\ n.c = w.c /\ n.p = w.p /\ n.f[f].live /\ n.f[f].kind = "flash"
    <3>1. "flash" \in Kinds BY DEF Kinds
    <3> QED BY <3>1, BegunPuts
  <2>3. Sound(n) BY <2>2 DEF Puts
  <2> HIDE DEF n
  <2>4. r \in World /\ Frees(n, r) /\ r.p = n.p BY <2>3, UsbAssumption, FieldKeeps
  <2>5. Puts(n, r, f) /\ Sound(r) BY <2>3, <2>4, FreesPuts DEF Puts
  <2>6. r.f = n.f /\ r.c.probe = n.c.probe BY <2>4 DEF Frees
  <2> HIDE DEF r
  <2>7. /\ Puts(r, b, f) /\ b.c = r.c /\ b.p = r.p /\ b.f[f].live = r.f[f].live
        /\ b.f[f].kind = r.f[f].kind
      BY <2>5, VariantPuts
  <2> HIDE DEF b
  <2>8. Puts(w, b, f) /\ Sound(b) BY <2>2, <2>5, <2>7, PutsPuts DEF Puts
  <2>9. b.c.probe # f /\ b.p.lock # f /\ b.f[f].live /\ b.f[f].kind # "rescan"
      BY <2>2, <2>4, <2>6, <2>7
  <2>10. Puts(b, BeginFlash(b, f), f) /\ BeginFlash(b, f).f[f].live
         /\ BeginFlash(b, f).f[f].pc # "free"
      BY <2>8, <2>9, BeginFlashPuts
  <2>11. LET v == At(Show(b, "connecting"), f, "choosing")
         IN  Puts(b, v, f) /\ v.f[f].live /\ v.f[f].pc # "free"
      BY <2>8, <2>9, ChoosePuts
  <2>12. Fine(w, BeginFlash(b, f)) BY <2>8, <2>10, PutsPuts, LiveFine
  <2>13. Fine(w, At(Show(b, "connecting"), f, "choosing"))
      BY <2>8, <2>11, PutsPuts, LiveFine
  <2> QED BY <2>1, <2>12, <2>13
<1> QED BY <1>1, <1>2

LEMMA ConfigFine ==
    ASSUME NEW w, Sound(w), NEW f \in Flows, w.c.probe # f, w.p.lock # f
    PROVE  Fine(w, ConfigWifi(w, f))
<1>1. CASE w.c.running
    BY <1>1, BusyFine DEF ConfigWifi
<1>2. CASE ~w.c.running
  <2> DEFINE n == Begun(w, f, "config")
             b == [n EXCEPT !.c.running = TRUE]
  <2>1. ConfigWifi(w, f) = IF w.c.hasPort THEN Scan(b, f)
                           ELSE At(Show(b, "connecting"), f, "choosing")
      BY <1>2 DEF ConfigWifi
  <2>2. /\ Puts(w, n, f) /\ n.c = w.c /\ n.p = w.p /\ n.f[f].live /\ n.f[f].kind = "config"
    <3>1. "config" \in Kinds BY DEF Kinds
    <3> QED BY <3>1, BegunPuts
  <2>3. Sound(n) BY <2>2 DEF Puts
  <2> HIDE DEF n
  <2>4. b \in World /\ Frees(n, b) /\ b.p = n.p BY <2>3, UsbAssumption, FieldKeeps
  <2>5. Puts(n, b, f) /\ Sound(b) BY <2>3, <2>4, FreesPuts DEF Puts
  <2>6. b.f = n.f /\ b.c.probe = n.c.probe BY <2>4 DEF Frees
  <2> HIDE DEF b
  <2>7. Puts(w, b, f) BY <2>2, <2>5, PutsPuts
  <2>8. b.c.probe # f /\ b.p.lock # f /\ b.f[f].live /\ b.f[f].kind # "rescan"
      BY <2>2, <2>4, <2>6
  <2>9. Puts(b, Scan(b, f), f) /\ Scan(b, f).f[f].live /\ Scan(b, f).f[f].pc = "scanWakes"
      BY <2>5, <2>8, ScanPuts
  <2>10. LET v == At(Show(b, "connecting"), f, "choosing")
         IN  Puts(b, v, f) /\ v.f[f].live /\ v.f[f].pc # "free"
      BY <2>5, <2>8, ChoosePuts
  <2>11. Fine(w, Scan(b, f)) BY <2>7, <2>9, PutsPuts, LiveFine
  <2>12. Fine(w, At(Show(b, "connecting"), f, "choosing"))
      BY <2>7, <2>10, PutsPuts, LiveFine
  <2> QED BY <2>1, <2>11, <2>12
<1> QED BY <1>1, <1>2

LEMMA DetectFine ==
    ASSUME NEW w, Sound(w), NEW f \in Flows, w.f[f].kind # "rescan", w.c.probe # f,
           w.p.lock # f, w.f[f].live
    PROVE  Fine(w, Detect(w, f))
<1> DEFINE s == Show(w, "detecting")
           h == [s EXCEPT !.c.hasPort = TRUE]
           o == [h EXCEPT !.p.open = TRUE]
           mine == ~w.p.open
           n == [o EXCEPT !.f[f].opened = mine]
           a == At(n, f, "detecting")
           b == [a EXCEPT !.c.probe = f]
           v == [b EXCEPT !.p.lock = f]
<1>1. Puts(w, s, f) /\ s.f = w.f /\ s.p = w.p /\ s.c.probe = w.c.probe BY ShowPuts DEF Steps
<1>2. Sound(s) BY <1>1 DEF Puts
<1>3. Detect(w, f) = IF w.p.lock = "free" THEN v ELSE b
  <2>1. b = [s EXCEPT !.c.hasPort = TRUE, !.p.open = TRUE, !.f[f].opened = mine,
                      !.f[f].pc = "detecting", !.c.probe = f]
    <3> HIDE DEF s, mine
    <3> QED BY DEF At
  <2> HIDE DEF b, s
  <2> QED BY <2>1 DEF Detect, s
<1> HIDE DEF s
<1>4. h \in World /\ Frees(s, h) /\ h.p = s.p BY <1>2, UsbAssumption, FieldKeeps
<1>5. Puts(s, h, f) /\ Sound(h) /\ h.f = s.f /\ h.c.probe = s.c.probe
    BY <1>2, <1>4, FreesPuts
<1> HIDE DEF h
<1>6. o \in World /\ Frees(h, o) /\ o.p.lock = h.p.lock BY <1>5, UsbAssumption, FieldKeeps
<1>7. Puts(h, o, f) /\ Sound(o) /\ o.f = h.f /\ o.c.probe = h.c.probe
    BY <1>5, <1>6, FreesPuts
<1> HIDE DEF o
<1>8. /\ Puts(o, n, f) /\ n.c = o.c /\ n.p = o.p /\ n.f[f].live = o.f[f].live
      /\ n.f[f].kind = o.f[f].kind
  <2>1. mine \in BOOLEAN OBVIOUS
  <2> HIDE DEF mine
  <2> QED BY <1>7, <2>1, OpenedPuts
<1> HIDE DEF n
<1>9. Sound(n) /\ n.c.probe # f /\ n.p.lock # f /\ n.f[f].live /\ n.f[f].kind # "rescan"
    BY <1>1, <1>4, <1>5, <1>6, <1>7, <1>8 DEF Puts
<1>10. Puts(n, a, f) /\ a.f[f].pc = "detecting" /\ a.f[f].live = n.f[f].live
  <2>1. "detecting" \in Places \ {"free"} BY DEF Places, Probing
  <2>2. Sound(n) BY <1>9
  <2>3. n.f[f].kind # "rescan" /\ n.c.probe # f /\ n.p.lock # f BY <1>9
  <2> QED BY <2>1, <2>2, <2>3, GoesPuts
<1> HIDE DEF a
<1>11. Puts(a, b, f) /\ b.f = a.f
  <2>1. Sound(a) /\ a.f[f].pc \in Probing BY <1>10 DEF Puts, Probing
  <2> QED BY <2>1, ProbePuts
<1> HIDE DEF b
<1>12. Puts(b, v, f) /\ v.f = b.f
  <2>1. Sound(b) /\ b.f[f].pc \in Holding /\ b.f[f].pc \notin {"sending", "reading"}
      BY <1>10, <1>11 DEF Puts, Holding
  <2> QED BY <2>1, LockPuts
<1> HIDE DEF v
<1>13. Puts(w, n, f) BY <1>1, <1>5, <1>7, <1>8, PutsPuts
<1>14. Puts(w, b, f) BY <1>10, <1>11, <1>13, PutsPuts
<1>15. Puts(w, v, f) BY <1>12, <1>14, PutsPuts
<1>16. b.f[f].live /\ b.f[f].pc # "free" /\ v.f[f].live /\ v.f[f].pc # "free"
    BY <1>9, <1>10, <1>11, <1>12
<1>17. Fine(w, b) /\ Fine(w, v) BY <1>14, <1>15, <1>16, LiveFine
<1> QED BY <1>3, <1>17

\* The credentials are sent on streams of which the controller knows.
LEMMA SendFine ==
    ASSUME NEW w, Sound(w), NEW f \in Flows, w.c.probe # f, w.p.lock # f
    PROVE  Fine(w, [Show(Begun(w, f, "provision"), "wifi_connecting") EXCEPT
                        !.p.lock = f, !.c.kept = TRUE, !.f[f].pc = "sending"])
<1> DEFINE n == Begun(w, f, "provision")
           s == Show(n, "wifi_connecting")
           k == [s EXCEPT !.c.kept = TRUE]
           a == At(k, f, "sending")
           v == [a EXCEPT !.p.lock = f]
<1>1. Puts(w, n, f) /\ n.c = w.c /\ n.p = w.p /\ n.f[f].live /\ n.f[f].kind = "provision"
  <2>1. "provision" \in Kinds BY DEF Kinds
  <2> QED BY <2>1, BegunPuts
<1>2. Sound(n) BY <1>1 DEF Puts
<1> HIDE DEF n
<1>3. Puts(n, s, f) /\ s.f = n.f /\ s.p = n.p /\ s.c.probe = n.c.probe
    BY <1>2, ShowPuts DEF Steps
<1>4. Sound(s) BY <1>3 DEF Puts
<1> HIDE DEF s
<1>5. Puts(s, k, f) /\ k.p = s.p /\ k.f = s.f /\ k.c.kept /\ k.c.probe = s.c.probe
    BY <1>4, KeptPuts
<1>6. [s EXCEPT !.p.lock = f, !.c.kept = TRUE, !.f[f].pc = "sending"] = v
  <2>1. s \in World BY <1>4 DEF Sound
  <2> QED BY <2>1 DEF At, World
<1> HIDE DEF k
<1>7. Puts(k, a, f) /\ a.c = k.c /\ a.f[f].pc = "sending" /\ a.f[f].live = k.f[f].live
  <2>1. "sending" \in Places \ {"free"} BY DEF Places, Holding
  <2>2. Sound(k) BY <1>5 DEF Puts
  <2>3. k.f[f].kind # "rescan" /\ k.c.probe # f /\ k.p.lock # f BY <1>1, <1>3, <1>5
  <2> QED BY <2>1, <2>2, <2>3, GoesPuts
<1> HIDE DEF a
<1>8. Puts(a, v, f) /\ v.f = a.f
  <2>1. Sound(a) /\ a.f[f].pc \in Holding /\ a.c.kept BY <1>5, <1>7 DEF Puts, Holding
  <2> QED BY <2>1, LockPuts
<1> HIDE DEF v
<1>9. Puts(w, v, f) BY <1>1, <1>3, <1>5, <1>7, <1>8, PutsPuts
<1>10. v.f[f].live /\ v.f[f].pc # "free" BY <1>1, <1>3, <1>5, <1>7, <1>8
<1>11. Fine(w, v) BY <1>9, <1>10, LiveFine
<1> QED BY <1>6, <1>11 DEF s, n

-----------------------------------------------------------------------------
(* The steps                                                               *)

\* The inductive invariant, and what a step must do.
IInv == Sound(W) /\ Shown(W) /\ Real(W)

Excused == \E f \in Flows : /\ port.lock = f /\ ~flow[f].live
                            /\ flow[f].pc \in {"scanning", "checking"} /\ flow[f].kind # "rescan"
Lawful(x) == /\ Sound(x) /\ Shown(x) /\ Real(x)
             /\ x.p.lock = "lost" => port.lock = "lost" \/ Excused
Behaves == \E x : Becomes(x) /\ Lawful(x)

LEMMA FineBehaves == ASSUME IInv, NEW x, Fine(W, x), Becomes(x) PROVE Behaves
BY DEF IInv, Fine, Keeps, Lawful, Behaves, W

LEMMA WorldFields == W.c = ctrl /\ W.p = port /\ W.f = flow
BY DEF W

LEMMA PlaceFacts ==
    ASSUME NEW w, Sound(w), NEW f \in Flows
    PROVE  /\ w.f[f].pc \notin Probing => w.c.probe # f
           /\ w.f[f].pc \notin Holding => w.p.lock # f
           /\ w.f[f].pc \notin {"free", "scanWakes", "scanning"} => w.f[f].kind # "rescan"
           /\ w.p.lock = f /\ w.f[f].pc \in {"sending", "reading"} => w.c.kept
BY UsbAssumption DEF Sound, Proper

LEMMA TidyKeeps ==
    ASSUME NEW w, NEW v \in World, Sound(w), Shown(w), Frees(w, v), NEW f \in Flows
    PROVE  /\ Sound(v) /\ Shown(v) /\ Fine(w, v) /\ v.f = w.f /\ v.c.probe = w.c.probe
           /\ w.p.lock # f => v.p.lock # f
<1>1. Sound(v) /\ Fine(w, v) BY FreesKeeps, FreesFine
<1> QED BY <1>1, UsbAssumption DEF Fine, Frees

LEMMA ReturnBehaves ==
    ASSUME IInv, NEW w, Fine(W, w), NEW f \in Flows, w.c.probe # f, w.p.lock # f \/ w.c.kept,
           Calm(w) \/ ~w.f[f].live, Becomes(Return(w, f))
    PROVE  Behaves
<1>1. Sound(w) /\ Shown(w) BY DEF Fine
<1>2. Fine(w, Return(w, f)) BY <1>1, ReturnFine
<1> QED BY <1>2, FineFine, FineBehaves

\* A superseded scan or check may leave with the streams.
LEMMA LeaveBehaves ==
    ASSUME IInv, NEW w, Fine(W, w), NEW f \in Flows, w.c.probe # f, w.p = W.p, ~w.f[f].live,
           ~flow[f].live, flow[f].pc \in {"scanning", "checking"}, flow[f].kind # "rescan",
           Becomes(Return(w, f))
    PROVE  Behaves
<1>1. Sound(w) /\ Shown(w) /\ Real(w) BY DEF Fine, IInv
<1>2. /\ Sound(Return(w, f)) /\ Shown(Return(w, f)) /\ Real(Return(w, f))
      /\ Return(w, f).p.lock = "lost" => w.p.lock = "lost" \/ (w.p.lock = f /\ ~w.c.kept)
    BY <1>1, ReturnKeeps
<1>3. Return(w, f).p.lock = "lost" => port.lock = "lost" \/ Excused
    BY <1>2, WorldFields DEF Excused
<1> QED BY <1>2, <1>3 DEF Lawful, Behaves

LEMMA ScreenFine ==
    ASSUME NEW w, Sound(w), NEW s \in Screens, s.step \notin Working
    PROVE  LET v == [w EXCEPT !.c.screen = s]
           IN  Fine(w, v) /\ Calm(v) /\ v.f = w.f /\ v.p = w.p /\ v.c.probe = w.c.probe
<1> DEFINE v == [w EXCEPT !.c.screen = s]
<1>1. w \in World /\ w.c \in Controller BY DEF Sound, World
<1>2. v.c = [w.c EXCEPT !.screen = s] /\ v.p = w.p /\ v.f = w.f /\ v = [w EXCEPT !.c = v.c]
    BY <1>1 DEF World
<1> HIDE DEF v
<1>3. v.c \in Controller /\ v.c.probe = w.c.probe /\ v.c.kept = w.c.kept /\ v.c.screen = s
    BY <1>1, <1>2 DEF Controller
<1>4. v \in World BY <1>1, <1>2, <1>3 DEF World
<1>5. Sound(v) BY <1>2, <1>3, <1>4 DEF Sound
<1>6. Calm(v) BY <1>3 DEF Calm
<1>7. Fine(w, v) BY <1>2, <1>5, <1>6 DEF Fine, Shown, Keeps, Real
<1> QED BY <1>2, <1>3, <1>6, <1>7 DEF v

LEMMA HaAnswersBehaves == ASSUME IInv, NEW f \in Flows, HaAnswers(f) PROVE Behaves
<1>1. PICK r \in {"added", "cannot_connect", "failed"} : Becomes(Answer(W, f, r))
    BY DEF HaAnswers
<1>2. Sound(W) /\ Shown(W) /\ W.f[f].pc = "adding"
    BY WorldFields DEF IInv, HaAnswers
<1>3. W.c.probe # f /\ W.p.lock # f /\ W.f[f].kind # "rescan"
    BY <1>2, PlaceFacts DEF Probing, Holding
<1>4. CASE ~W.f[f].live
  <2>1. Answer(W, f, r) = Return(W, f) BY <1>4 DEF Answer
  <2>2. Fine(W, W) BY <1>2 DEF Fine, Keeps
  <2> QED BY <1>1, <1>3, <1>4, <2>1, <2>2, ReturnBehaves
<1>5. CASE W.f[f].live /\ r = "added"
  <2>1. Answer(W, f, r) = At(W, f, "settingUp") BY <1>5 DEF Answer
  <2>2. "settingUp" \in Places \ {"free"} BY DEF Places
  <2>3. /\ Puts(W, At(W, f, "settingUp"), f) /\ At(W, f, "settingUp").f[f].pc = "settingUp"
        /\ At(W, f, "settingUp").f[f].live = W.f[f].live
      BY <1>2, <1>3, <2>2, GoesPuts
  <2>4. Fine(W, At(W, f, "settingUp")) BY <1>5, <2>3, LiveFine
  <2> QED BY <1>1, <2>1, <2>4, FineBehaves
<1>6. CASE W.f[f].live /\ r = "cannot_connect" /\ W.f[f].attempt < MaxAttempts
  <2> DEFINE s == Show(W, "wifi_configured")
             a == At(s, f, "backoff")
             n == W.f[f].attempt + 1
             v == [a EXCEPT !.f[f].attempt = n]
  <2>1. Puts(W, s, f) /\ s.f = W.f /\ s.p = W.p /\ s.c.probe = W.c.probe
      BY <1>2, ShowPuts DEF Steps
  <2>2. Sound(s) BY <2>1 DEF Puts
  <2>3. Answer(W, f, r) = v
    <3>1. Answer(W, f, r) = [s EXCEPT !.f[f].pc = "backoff", !.f[f].attempt = @ + 1]
        BY <1>6 DEF Answer
    <3>2. s \in World /\ s.f[f] = W.f[f] /\ s.f[f] \in Operation
        BY <2>1, <2>2 DEF Sound, World
    <3> HIDE DEF s
    <3>3. a = [s EXCEPT !.f[f].pc = "backoff"] BY DEF At
    <3>4. a.f[f].attempt = s.f[f].attempt BY <3>2, <3>3 DEF World, Operation
    <3> HIDE DEF a
    <3> QED BY <3>1, <3>2, <3>3, <3>4
  <2>4. n \in 1..MaxAttempts
    <3>1. W.f[f].attempt \in 1..MaxAttempts BY <1>2 DEF Sound, World, Operation
    <3> QED BY <1>6, <3>1, UsbAssumption
  <2> HIDE DEF s, n
  <2>5. Puts(s, a, f) /\ a.f[f].pc = "backoff" /\ a.f[f].live = s.f[f].live
    <3>1. "backoff" \in Places \ {"free"} BY DEF Places
    <3>2. s.f[f].kind # "rescan" /\ s.c.probe # f /\ s.p.lock # f BY <1>3, <2>1
    <3> QED BY <2>2, <3>1, <3>2, GoesPuts
  <2>6. Sound(a) BY <2>5 DEF Puts
  <2> HIDE DEF a
  <2>7. Puts(a, v, f) /\ v.f[f].pc = a.f[f].pc /\ v.f[f].live = a.f[f].live
      BY <2>4, <2>6, AttemptPuts
  <2> HIDE DEF v
  <2>8. Fine(W, v) BY <1>6, <2>1, <2>5, <2>7, PutsPuts, LiveFine
  <2> QED BY <1>1, <2>3, <2>8, FineBehaves
<1>7. CASE W.f[f].live /\ r # "added" /\ ~(r = "cannot_connect" /\ W.f[f].attempt < MaxAttempts)
  <2> DEFINE s == [NoScreen EXCEPT !.step = "complete", !.retry = "add"]
             v == [W EXCEPT !.c.screen = s]
  <2>1. Answer(W, f, r) = Return(v, f) BY <1>7 DEF Answer
  <2>2. s \in Screens /\ s.step \notin Working
      BY DEF NoScreen, Screens, Steps, Variants, Working
  <2> HIDE DEF s
  <2>3. Fine(W, v) /\ Calm(v) /\ v.p = W.p /\ v.c.probe = W.c.probe
      BY <1>2, <2>2, ScreenFine
  <2> HIDE DEF v
  <2> QED BY <1>1, <1>3, <2>1, <2>3, ReturnBehaves
<1> QED BY <1>4, <1>5, <1>6, <1>7

LEMMA BackoffBehaves == ASSUME IInv, NEW f \in Flows, Backoff(f) PROVE Behaves
<1>1. Sound(W) /\ Shown(W) /\ W.f[f].pc = "backoff" /\ W.f[f].live = flow[f].live
    BY WorldFields DEF IInv, Backoff
<1>2. W.c.probe # f /\ W.p.lock # f /\ W.f[f].kind # "rescan"
    BY <1>1, PlaceFacts DEF Probing, Holding
<1>3. CASE flow[f].live
  <2>1. Becomes(At(W, f, "adding")) BY <1>3 DEF Backoff
  <2>2. "adding" \in Places \ {"free"} BY DEF Places
  <2>3. /\ Puts(W, At(W, f, "adding"), f) /\ At(W, f, "adding").f[f].pc = "adding"
        /\ At(W, f, "adding").f[f].live = W.f[f].live
      BY <1>1, <1>2, <2>2, GoesPuts
  <2>4. Fine(W, At(W, f, "adding")) BY <1>1, <1>3, <2>3, LiveFine
  <2> QED BY <2>1, <2>4, FineBehaves
<1>4. CASE ~flow[f].live
  <2>1. Becomes(Return(W, f)) BY <1>4 DEF Backoff
  <2>2. Fine(W, W) BY <1>1 DEF Fine, Keeps
  <2> QED BY <1>1, <1>2, <1>4, <2>1, <2>2, ReturnBehaves
<1> QED BY <1>3, <1>4

LEMMA DeviceListedBehaves == ASSUME IInv, NEW f \in Flows, DeviceListed(f) PROVE Behaves
<1>1. Sound(W) /\ Shown(W) /\ W.f[f].pc = "settingUp" /\ W.f[f].live = flow[f].live
    BY WorldFields DEF IInv, DeviceListed
<1>2. W.c.probe # f /\ W.p.lock # f BY <1>1, PlaceFacts DEF Probing, Holding
<1>3. CASE flow[f].live /\ Becomes(Return(ResetUsbState(W), f))
  <2> DEFINE r == ResetUsbState(W)
  <2>1. Fine(W, r) BY <1>1, ResetFine
  <2>2. r.c.probe = None /\ r.p.lock \in {W.p.lock, "free"} /\ ~r.f[f].live
      BY <1>1, ResetKeeps
  <2>3. r.c.probe # f /\ r.p.lock # f BY <1>2, <2>2, UsbAssumption
  <2> HIDE DEF r
  <2> QED BY <1>3, <2>1, <2>2, <2>3, ReturnBehaves DEF r
<1>4. CASE ~flow[f].live /\ Becomes(Return(W, f))
  <2>1. Fine(W, W) BY <1>1 DEF Fine, Keeps
  <2> QED BY <1>1, <1>2, <1>4, <2>1, ReturnBehaves
<1>5. CASE Becomes(Return(Show(W, "complete"), f))
  <2>1. "complete" \in Steps \ Working BY DEF Steps, Working
  <2>2. /\ Fine(W, Show(W, "complete")) /\ Calm(Show(W, "complete"))
        /\ Show(W, "complete").p = W.p /\ Show(W, "complete").c.probe = W.c.probe
      BY <1>1, <2>1, CalmFine
  <2> QED BY <1>2, <1>5, <2>2, ReturnBehaves
<1> QED BY <1>3, <1>4, <1>5 DEF DeviceListed

LEMMA ScanWakesBehaves == ASSUME IInv, NEW f \in Flows, ScanWakes(f) PROVE Behaves
<1>1. Sound(W) /\ Shown(W) /\ W.f[f].pc = "scanWakes" BY WorldFields DEF IInv, ScanWakes
<1>2. W.c.probe # f /\ W.p.lock # f BY <1>1, PlaceFacts DEF Probing, Holding
<1>3. CASE Becomes(Awake(W, f, "scanning"))
  <2>1. /\ Puts(W, Awake(W, f, "scanning"), f) /\ Awake(W, f, "scanning").f[f].pc = "scanning"
        /\ Shown(Awake(W, f, "scanning"))
      BY <1>1, <1>2, AwakePuts
  <2>2. Fine(W, Awake(W, f, "scanning")) BY <2>1, PutsFine
  <2> QED BY <1>3, <2>2, FineBehaves
<1>4. CASE Becomes(Fails(W, f))
  <2>1. Fine(W, Fails(W, f)) BY <1>1, <1>2, FailsFine
  <2> QED BY <1>4, <2>1, FineBehaves
<1> QED BY <1>3, <1>4 DEF ScanWakes

LEMMA ScanEndsBehaves == ASSUME IInv, NEW f \in Flows, ScanEnds(f) PROVE Behaves
<1>1. /\ Sound(W) /\ Shown(W) /\ W.f[f].pc = "scanning" /\ flow[f].pc = "scanning"
      /\ W.f[f] = flow[f]
    BY WorldFields DEF IInv, ScanEnds
<1>2. W.c.probe # f BY <1>1, PlaceFacts DEF Probing
<1>3. CASE Becomes(Fails(Free(W, f), f))
  <2> DEFINE u == Free(W, f)
  <2>1. u \in World /\ Frees(W, u) /\ u.p.lock # f BY <1>1, FreeKeeps
  <2> HIDE DEF u
  <2>2. Sound(u) /\ Shown(u) /\ Fine(W, u) /\ u.c.probe = W.c.probe BY <1>1, <2>1, TidyKeeps
  <2>3. Fine(u, Fails(u, f)) BY <1>2, <2>1, <2>2, FailsFine
  <2>4. Fine(W, Fails(u, f)) BY <2>2, <2>3, FineFine
  <2> QED BY <1>3, <2>4, FineBehaves DEF u
<1>4. CASE Becomes(ScanDone(W, f))
  <2> DEFINE r == IF W.f[f].kind = "rescan" THEN W ELSE NotRunning(W)
             k == [r EXCEPT !.c.kept = TRUE]
             s == Show(k, "wifi_provision")
  <2>1. r \in World /\ Frees(W, r) /\ r.p = W.p
      BY <1>1, NotRunningKeeps DEF Frees, Sound
  <2>2. ScanDone(W, f) = CASE W.f[f].live -> Return(s, f)
                           [] ~W.f[f].live /\ W.f[f].kind = "rescan" -> Return(Free(r, f), f)
                           [] OTHER -> Return(r, f)
      BY DEF ScanDone
  <2> HIDE DEF r
  <2>3. Sound(r) /\ Shown(r) /\ Fine(W, r) /\ r.f = W.f /\ r.c.probe = W.c.probe
      BY <1>1, <2>1, TidyKeeps
  <2>4. CASE W.f[f].live
    <3>1. Puts(r, k, f) /\ k.c.kept /\ k.f = r.f /\ k.c.probe = r.c.probe BY <2>3, KeptPuts
    <3> HIDE DEF k
    <3>2. Sound(k) BY <3>1 DEF Puts
    <3>3. "wifi_provision" \in Steps \ Working BY DEF Steps, Working
    <3>4. /\ Fine(k, s) /\ Calm(s) /\ s.f = k.f /\ s.c.kept = k.c.kept /\ s.c.probe = k.c.probe
        BY <3>2, <3>3, CalmFine
    <3> HIDE DEF s
    <3>5. Fine(r, s) BY <3>1, <3>4 DEF Fine, Puts, Keeps, Real
    <3>6. Fine(W, s) BY <2>3, <3>5, FineFine
    <3>7. s.c.probe # f /\ s.c.kept BY <1>2, <2>3, <3>1, <3>4
    <3>8. Becomes(Return(s, f)) BY <1>4, <2>2, <2>4
    <3> QED BY <3>4, <3>6, <3>7, <3>8, ReturnBehaves
  <2>5. CASE ~W.f[f].live /\ W.f[f].kind = "rescan"
    <3> DEFINE u == Free(r, f)
    <3>1. u \in World /\ Frees(r, u) /\ u.p.lock # f BY <2>3, FreeKeeps
    <3>2. Becomes(Return(u, f)) BY <1>4, <2>2, <2>5
    <3> HIDE DEF u
    <3>3. Fine(r, u) /\ u.f = r.f /\ u.c.probe = r.c.probe BY <2>3, <3>1, TidyKeeps
    <3>4. Fine(W, u) BY <2>3, <3>3, FineFine
    <3>5. u.c.probe # f /\ ~u.f[f].live BY <1>2, <2>3, <2>5, <3>3
    <3> QED BY <3>1, <3>2, <3>4, <3>5, ReturnBehaves
  <2>6. CASE ~W.f[f].live /\ W.f[f].kind # "rescan"
    <3>1. Becomes(Return(r, f)) BY <1>4, <2>2, <2>6
    <3>2. r.c.probe # f /\ ~r.f[f].live /\ ~flow[f].live /\ flow[f].kind # "rescan"
        BY <1>1, <1>2, <2>3, <2>6
    <3> QED BY <1>1, <2>1, <2>3, <3>1, <3>2, LeaveBehaves
  <2> QED BY <2>4, <2>5, <2>6
<1> QED BY <1>3, <1>4 DEF ScanEnds

LEMMA FlashRefusedBehaves == ASSUME IInv, NEW f \in Flows, FlashRefused(f) PROVE Behaves
<1>1. Sound(W) /\ Shown(W) /\ W.f[f].pc = "refused" /\ W.f[f] = flow[f]
    BY WorldFields DEF IInv, FlashRefused
<1>2. W.c.probe # f BY <1>1, PlaceFacts DEF Probing
<1> DEFINE d == Disconnect(W, f)
           w == NotRunning(d)
           m == CloseMine(w)
<1>3. d \in World /\ Frees(W, d) /\ d.p.lock # f BY <1>1, DisconnectKeeps
<1>4. Becomes(Return(IF flow[f].live THEN Busy(m) ELSE w, f)) BY DEF FlashRefused
<1> HIDE DEF d
<1>5. Sound(d) /\ Shown(d) /\ Fine(W, d) /\ d.f = W.f /\ d.c.probe = W.c.probe
    BY <1>1, <1>3, TidyKeeps
<1>6. w \in World /\ Frees(d, w) BY <1>5, NotRunningKeeps
<1> HIDE DEF w
<1>7. /\ Sound(w) /\ Shown(w) /\ Fine(d, w) /\ w.f = d.f /\ w.c.probe = d.c.probe
      /\ w.p.lock # f
    BY <1>3, <1>5, <1>6, TidyKeeps
<1>8. m \in World /\ Frees(w, m) BY <1>7, CloseMineKeeps
<1> HIDE DEF m
<1>9. Sound(m) /\ Fine(w, m) /\ m.c.probe = w.c.probe /\ m.p.lock # f
    BY <1>7, <1>8, TidyKeeps
<1>10. CASE flow[f].live
  <2>1. /\ Fine(m, Busy(m)) /\ Calm(Busy(m)) /\ Busy(m).p = m.p
        /\ Busy(m).c.probe = m.c.probe
      BY <1>9, BusyFine
  <2>2. Fine(W, Busy(m)) BY <1>5, <1>7, <1>9, <2>1, FineFine
  <2>3. Busy(m).c.probe # f /\ Busy(m).p.lock # f BY <1>2, <1>5, <1>7, <1>9, <2>1
  <2> QED BY <1>4, <1>10, <2>1, <2>2, <2>3, ReturnBehaves
<1>11. CASE ~flow[f].live
  <2>1. Fine(W, w) BY <1>5, <1>7, FineFine
  <2>2. w.c.probe # f /\ ~w.f[f].live BY <1>1, <1>2, <1>5, <1>7, <1>11
  <2> QED BY <1>4, <1>7, <1>11, <2>1, <2>2, ReturnBehaves
<1> QED BY <1>10, <1>11

\* A flash goes on where it keeps the streams it has.
LEMMA WritingFine ==
    ASSUME NEW w, Sound(w), NEW f \in Flows, NEW pc \in {"writing", "asking"},
           w.f[f].kind # "rescan", w.c.probe # f, Shown(w)
    PROVE  Fine(w, At(w, f, pc))
<1>1. pc \in Places \ {"free"} BY DEF Places, Holding
<1>2. w.f[f].kind = "rescan" => pc \in {"scanWakes", "scanning"} OBVIOUS
<1>3. w.c.probe = f => pc \in Probing OBVIOUS
<1>4. pc \in Holding /\ pc \notin {"sending", "reading"} BY DEF Holding
<1>5. w.p.lock = f => pc \in Holding /\ (pc \in {"sending", "reading"} => w.c.kept) BY <1>4
<1>6. /\ Puts(w, At(w, f, pc), f) /\ At(w, f, pc).f[f].pc = pc
      /\ Shown(w) => Shown(At(w, f, pc))
    BY <1>1, <1>2, <1>3, <1>5, AtPuts
<1>7. pc # "free" OBVIOUS
<1> QED BY <1>6, <1>7, PutsFine

LEMMA FlashingFine ==
    ASSUME NEW w, Sound(w), NEW f \in Flows, w.f[f].kind # "rescan", w.c.probe # f
    PROVE  Fine(w, At(Show(w, "flashing"), f, "writing"))
<1> DEFINE s == Show(w, "flashing")
<1>1. "flashing" \in Steps \ Working BY DEF Steps, Working
<1>2. Fine(w, s) /\ s.f = w.f /\ s.c.probe = w.c.probe BY <1>1, CalmFine
<1> HIDE DEF s
<1>3. Sound(s) /\ Shown(s) BY <1>2 DEF Fine
<1>4. Fine(s, At(s, f, "writing")) BY <1>2, <1>3, WritingFine
<1> QED BY <1>2, <1>4, FineFine DEF s

LEMMA LoaderAnswersBehaves == ASSUME IInv, NEW f \in Flows, LoaderAnswers(f) PROVE Behaves
<1>1. Sound(W) /\ Shown(W) /\ W.f[f].pc = "loading" BY WorldFields DEF IInv, LoaderAnswers
<1>2. W.c.probe # f /\ W.f[f].kind # "rescan" BY <1>1, PlaceFacts DEF Probing
<1>3. CASE Becomes(At(Show(W, "flashing"), f, "writing"))
    BY <1>1, <1>2, <1>3, FlashingFine, FineBehaves
<1>4. CASE Becomes(At([W EXCEPT !.c.dialog = f], f, "asking"))
  <2> DEFINE u == [W EXCEPT !.c.dialog = f]
  <2>1. u \in World /\ Frees(W, u) BY <1>1, UsbAssumption, FieldKeeps
  <2> HIDE DEF u
  <2>2. Sound(u) /\ Shown(u) /\ Fine(W, u) /\ u.f = W.f /\ u.c.probe = W.c.probe
      BY <1>1, <2>1, TidyKeeps
  <2>3. Fine(u, At(u, f, "asking")) BY <1>2, <2>2, WritingFine
  <2>4. Fine(W, At(u, f, "asking")) BY <2>2, <2>3, FineFine
  <2> QED BY <1>4, <2>4, FineBehaves DEF u
<1> QED BY <1>3, <1>4 DEF LoaderAnswers

LEMMA ConfirmedBehaves == ASSUME IInv, NEW f \in Flows, Confirmed(f) PROVE Behaves
<1>1. Sound(W) /\ Shown(W) /\ W.f[f].pc = "asking" BY WorldFields DEF IInv, Confirmed
<1>2. W.c.probe # f /\ W.f[f].kind # "rescan" BY <1>1, PlaceFacts DEF Probing
<1> DEFINE u == [W EXCEPT !.c.dialog = None]
<1>3. u \in World /\ Frees(W, u) BY <1>1, UsbAssumption, FieldKeeps
<1>4. Becomes(At(Show(u, "flashing"), f, "writing")) BY DEF Confirmed
<1> HIDE DEF u
<1>5. Sound(u) /\ Fine(W, u) /\ u.f = W.f /\ u.c.probe = W.c.probe BY <1>1, <1>3, TidyKeeps
<1>6. Fine(u, At(Show(u, "flashing"), f, "writing")) BY <1>2, <1>5, FlashingFine
<1> QED BY <1>4, <1>5, <1>6, FineFine, FineBehaves

LEMMA DeclinedBehaves == ASSUME IInv, NEW f \in Flows, Declined(f) PROVE Behaves
<1>1. Sound(W) /\ Shown(W) /\ W.f[f].pc = "asking" /\ W.f[f] = flow[f]
    BY WorldFields DEF IInv, Declined
<1>2. W.c.probe # f BY <1>1, PlaceFacts DEF Probing
<1> DEFINE e == IF W.c.dialog = f THEN None ELSE W.c.dialog
           u == [W EXCEPT !.c.dialog = e]
           d == Disconnect(u, f)
           w == NotRunning(d)
           m == CloseMine(w)
           r == ResetUsbState(m)
<1>3. e \in Flows \cup {None} BY <1>1 DEF Sound, World, Controller
<1>4. Becomes(Return(IF flow[f].live THEN r ELSE w, f)) BY DEF Declined
<1> HIDE DEF e
<1>5. u \in World /\ Frees(W, u) BY <1>1, <1>3, UsbAssumption, FieldKeeps
<1> HIDE DEF u
<1>6. Sound(u) /\ Shown(u) /\ Fine(W, u) /\ u.f = W.f /\ u.c.probe = W.c.probe
    BY <1>1, <1>5, TidyKeeps
<1>7. d \in World /\ Frees(u, d) /\ d.p.lock # f BY <1>6, DisconnectKeeps
<1> HIDE DEF d
<1>8. Sound(d) /\ Shown(d) /\ Fine(u, d) /\ d.f = u.f /\ d.c.probe = u.c.probe
    BY <1>6, <1>7, TidyKeeps
<1>9. w \in World /\ Frees(d, w) BY <1>8, NotRunningKeeps
<1> HIDE DEF w
<1>10. /\ Sound(w) /\ Shown(w) /\ Fine(d, w) /\ w.f = d.f /\ w.c.probe = d.c.probe
       /\ w.p.lock # f
    BY <1>7, <1>8, <1>9, TidyKeeps
<1>11. Fine(W, w) BY <1>6, <1>8, <1>10, FineFine
<1>12. CASE flow[f].live
  <2>1. m \in World /\ Frees(w, m) BY <1>10, CloseMineKeeps
  <2> HIDE DEF m
  <2>2. Sound(m) /\ Fine(w, m) /\ m.p.lock # f BY <1>10, <2>1, TidyKeeps
  <2>3. /\ Fine(m, r) /\ r.c.probe = None /\ r.p.lock \in {m.p.lock, "free"}
        /\ ~r.f[f].live
      BY <2>2, ResetKeeps, ResetFine
  <2> HIDE DEF r
  <2>4. Fine(W, r) BY <1>11, <2>2, <2>3, FineFine
  <2>5. r.c.probe # f /\ r.p.lock # f BY <2>2, <2>3, UsbAssumption
  <2> QED BY <1>4, <1>12, <2>3, <2>4, <2>5, ReturnBehaves
<1>13. CASE ~flow[f].live
  <2>1. w.c.probe # f /\ ~w.f[f].live BY <1>1, <1>2, <1>6, <1>8, <1>10, <1>13
  <2> QED BY <1>4, <1>10, <1>11, <1>13, <2>1, ReturnBehaves
<1> QED BY <1>12, <1>13

LEMMA ProgressBehaves == ASSUME IInv, NEW f \in Flows, Progress(f) PROVE Behaves
<1>1. "flashing" \in Steps \ Working BY DEF Steps, Working
<1>2. Fine(W, Show(W, "flashing")) BY <1>1, CalmFine DEF IInv
<1> QED BY <1>2, FineBehaves DEF Progress

LEMMA FlashFailsBehaves == ASSUME IInv, NEW f \in Flows, FlashFails(f) PROVE Behaves
<1>1. Sound(W) /\ Shown(W) /\ W.f[f].pc \in {"loading", "writing"}
    BY WorldFields DEF IInv, FlashFails
<1>2. W.c.probe # f BY <1>1, PlaceFacts DEF Probing
<1> DEFINE d == Disconnect(W, f)
<1>3. d \in World /\ Frees(W, d) /\ d.p.lock # f BY <1>1, DisconnectKeeps
<1>4. Becomes(Fails(d, f)) BY DEF FlashFails
<1> HIDE DEF d
<1>5. Sound(d) /\ Shown(d) /\ Fine(W, d) /\ d.c.probe = W.c.probe BY <1>1, <1>3, TidyKeeps
<1>6. Fine(d, Fails(d, f)) BY <1>2, <1>3, <1>5, FailsFine
<1> QED BY <1>4, <1>5, <1>6, FineFine, FineBehaves

LEMMA WrittenBehaves == ASSUME IInv, NEW f \in Flows, Written(f) PROVE Behaves
<1>1. Sound(W) /\ Shown(W) /\ W.f[f].pc = "writing" /\ W.f[f] = flow[f]
    BY WorldFields DEF IInv, Written
<1>2. W.c.probe # f /\ W.f[f].kind # "rescan" BY <1>1, PlaceFacts DEF Probing
<1> DEFINE d == Disconnect(W, f)
           n == NotRunning(d)
           t == [TryClose(d) EXCEPT !.c.hasPort = FALSE]
           m == NotRunning(t)
           e == Show(m, "complete")
           s == Show(d, "wifi_check")
           k == Wake(s, f, "checkWakes")
           v == [k EXCEPT !.c.probe = f]
<1>3. d \in World /\ Frees(W, d) /\ d.p.lock # f BY <1>1, DisconnectKeeps
<1>4. Becomes(CASE ~flow[f].live -> Return(n, f)
                [] flow[f].live /\ flow[f].variant = "ethernet" -> Return(e, f)
                [] OTHER -> v)
    BY DEF Written
<1> HIDE DEF d
<1>5. Sound(d) /\ Shown(d) /\ Fine(W, d) /\ d.f = W.f /\ d.c.probe = W.c.probe
    BY <1>1, <1>3, TidyKeeps
<1>6. CASE ~flow[f].live
  <2>1. n \in World /\ Frees(d, n) BY <1>5, NotRunningKeeps
  <2>2. Becomes(Return(n, f)) BY <1>4, <1>6
  <2> HIDE DEF n
  <2>3. Fine(d, n) /\ n.f = d.f /\ n.c.probe = d.c.probe /\ n.p.lock # f
      BY <1>3, <1>5, <2>1, TidyKeeps
  <2>4. Fine(W, n) BY <1>5, <2>3, FineFine
  <2>5. n.c.probe # f /\ ~n.f[f].live BY <1>1, <1>2, <1>5, <1>6, <2>3
  <2> QED BY <2>2, <2>3, <2>4, <2>5, ReturnBehaves
<1>7. CASE flow[f].live /\ flow[f].variant = "ethernet"
  <2>1. Becomes(Return(e, f)) BY <1>4, <1>7
  <2>2. t \in World /\ Frees(d, t) BY <1>5, CloseKeeps
  <2> HIDE DEF t
  <2>3. Sound(t) /\ Shown(t) /\ Fine(d, t) /\ t.c.probe = d.c.probe /\ t.p.lock # f
      BY <1>3, <1>5, <2>2, TidyKeeps
  <2>4. m \in World /\ Frees(t, m) BY <2>3, NotRunningKeeps
  <2> HIDE DEF m
  <2>5. Sound(m) /\ Fine(t, m) /\ m.c.probe = t.c.probe /\ m.p.lock # f
      BY <2>3, <2>4, TidyKeeps
  <2>6. "complete" \in Steps \ Working BY DEF Steps, Working
  <2>7. Fine(m, e) /\ Calm(e) /\ e.p = m.p /\ e.c.probe = m.c.probe BY <2>5, <2>6, CalmFine
  <2> HIDE DEF e
  <2>8. Fine(W, e) BY <1>5, <2>3, <2>5, <2>7, FineFine
  <2>9. e.c.probe # f /\ e.p.lock # f BY <1>2, <1>5, <2>3, <2>5, <2>7
  <2> QED BY <2>1, <2>7, <2>8, <2>9, ReturnBehaves
<1>8. CASE flow[f].live /\ flow[f].variant # "ethernet"
  <2>1. Becomes(v) BY <1>4, <1>8
  <2>2. Puts(d, s, f) /\ s.f = d.f /\ s.p = d.p /\ s.c.probe = d.c.probe
      BY <1>5, ShowPuts DEF Steps
  <2>3. Sound(s) BY <2>2 DEF Puts
  <2> HIDE DEF s
  <2>4. Puts(s, k, f) /\ k.f[f].pc = "checkWakes" /\ k.f[f].live = s.f[f].live
    <3>1. s.f[f].kind # "rescan" /\ s.c.probe # f /\ s.p.lock # f
        BY <1>2, <1>3, <1>5, <2>2
    <3> QED BY <2>3, <3>1, WakePuts
  <2> HIDE DEF k
  <2>5. Sound(k) /\ k.f[f].pc \in Probing BY <2>4 DEF Puts, Probing
  <2>6. Puts(k, v, f) /\ v.f = k.f BY <2>5, ProbePuts
  <2> HIDE DEF v
  <2>7. Puts(d, v, f) BY <2>2, <2>4, <2>6, PutsPuts
  <2>8. v.f[f].live /\ v.f[f].pc # "free" BY <1>1, <1>5, <1>8, <2>2, <2>4, <2>6
  <2>9. Fine(d, v) BY <2>7, <2>8, LiveFine
  <2> QED BY <1>5, <2>1, <2>9, FineFine, FineBehaves
<1> QED BY <1>6, <1>7, <1>8

\* The check of the device is over; its probe, if it still is one, is forgotten.
LEMMA SettledKeeps ==
    ASSUME NEW w, Sound(w), Shown(w), NEW f \in Flows
    PROVE  LET v == Settled(w, f)
           IN  Fine(w, v) /\ v.f = w.f /\ v.p = w.p /\ v.c.probe # f
<1> DEFINE v == Settled(w, f)
<1>1. w \in World /\ w.c \in Controller BY DEF Sound, World
<1>2. CASE w.c.probe = f
  <2>1. v = [w EXCEPT !.c.probe = None] BY <1>1, <1>2 DEF Settled, World, Controller
  <2>2. Sound(v) /\ v.f = w.f /\ v.p = w.p /\ v.c.screen = w.c.screen /\ v.c.probe = None
      BY <2>1, NoProbeKeeps
  <2> HIDE DEF v
  <2>3. Fine(w, v) BY <2>2 DEF Fine, Shown, Calm, Keeps, Real
  <2> QED BY <2>2, <2>3, UsbAssumption DEF v
<1>3. CASE w.c.probe # f
  <2>1. v = w BY <1>1, <1>3 DEF Settled, World, Controller
  <2>2. Fine(w, w) BY DEF Fine, Keeps
  <2> QED BY <1>3, <2>1, <2>2
<1> QED BY <1>2, <1>3

LEMMA NoProbeFine ==
    ASSUME NEW w, Sound(w), Shown(w), NEW f \in Flows
    PROVE  LET v == [w EXCEPT !.c.probe = None]
           IN  Fine(w, v) /\ v.f = w.f /\ v.p = w.p /\ v.c.probe # f
<1> DEFINE v == [w EXCEPT !.c.probe = None]
<1>1. Sound(v) /\ v.f = w.f /\ v.p = w.p /\ v.c.screen = w.c.screen /\ v.c.probe = None
    BY NoProbeKeeps
<1> HIDE DEF v
<1>2. Fine(w, v) BY <1>1 DEF Fine, Shown, Calm, Keeps, Real
<1> QED BY <1>1, <1>2, UsbAssumption DEF v

\* What follows a check that is through and has left the streams.
LEMMA AfterCheck ==
    ASSUME IInv, NEW s, Fine(W, s), NEW f \in Flows, s.c.probe # f, s.p.lock # f,
           Becomes(IF s.f[f].live THEN Scan(s, f) ELSE Return(NotRunning(s), f))
    PROVE  Behaves
<1>1. Sound(s) /\ Shown(s) BY DEF Fine
<1>2. CASE s.f[f].live
  <2>1. Puts(s, Scan(s, f), f) /\ Scan(s, f).f[f].live /\ Scan(s, f).f[f].pc = "scanWakes"
      BY <1>1, <1>2, ScanPuts
  <2>2. Fine(s, Scan(s, f)) BY <2>1, LiveFine
  <2> QED BY <1>2, <2>2, FineFine, FineBehaves
<1>3. CASE ~s.f[f].live
  <2> DEFINE n == NotRunning(s)
  <2>1. n \in World /\ Frees(s, n) BY <1>1, NotRunningKeeps
  <2>2. Becomes(Return(n, f)) BY <1>3
  <2> HIDE DEF n
  <2>3. Fine(s, n) /\ n.f = s.f /\ n.c.probe = s.c.probe /\ n.p.lock # f
      BY <1>1, <2>1, TidyKeeps
  <2>4. Fine(W, n) BY <2>3, FineFine
  <2> QED BY <1>3, <2>2, <2>3, <2>4, ReturnBehaves
<1> QED BY <1>2, <1>3

LEMMA CheckFailedBehaves ==
    ASSUME IInv, NEW f \in Flows, Becomes(CheckFailed(W, f)) PROVE Behaves
<1>1. Sound(W) /\ Shown(W) BY DEF IInv
<1> DEFINE u == Free(W, f)
           s == Settled(u, f)
<1>2. u \in World /\ Frees(W, u) /\ u.p.lock # f BY <1>1, FreeKeeps
<1>3. Becomes(IF W.f[f].live THEN Scan(s, f) ELSE Return(NotRunning(s), f)) BY DEF CheckFailed
<1> HIDE DEF u
<1>4. Sound(u) /\ Shown(u) /\ Fine(W, u) /\ u.f = W.f BY <1>1, <1>2, TidyKeeps
<1>5. Fine(u, s) /\ s.f = u.f /\ s.p = u.p /\ s.c.probe # f BY <1>4, SettledKeeps
<1> HIDE DEF s
<1>6. Fine(W, s) BY <1>4, <1>5, FineFine
<1>7. Becomes(IF s.f[f].live THEN Scan(s, f) ELSE Return(NotRunning(s), f))
    BY <1>3, <1>4, <1>5
<1> QED BY <1>2, <1>5, <1>6, <1>7, AfterCheck

LEMMA OffNetworkBehaves ==
    ASSUME IInv, NEW f \in Flows, Becomes(OffNetwork(W, f)) PROVE Behaves
<1>1. Sound(W) /\ Shown(W) BY DEF IInv
<1> DEFINE u == Free(W, f)
           s == [u EXCEPT !.c.probe = None]
<1>2. u \in World /\ Frees(W, u) /\ u.p.lock # f BY <1>1, FreeKeeps
<1>3. Becomes(IF W.f[f].live THEN Scan(s, f) ELSE Return(NotRunning(s), f)) BY DEF OffNetwork
<1> HIDE DEF u
<1>4. Sound(u) /\ Shown(u) /\ Fine(W, u) /\ u.f = W.f BY <1>1, <1>2, TidyKeeps
<1>5. Fine(u, s) /\ s.f = u.f /\ s.p = u.p /\ s.c.probe # f BY <1>4, NoProbeFine
<1> HIDE DEF s
<1>6. Fine(W, s) BY <1>4, <1>5, FineFine
<1>7. Becomes(IF s.f[f].live THEN Scan(s, f) ELSE Return(NotRunning(s), f))
    BY <1>3, <1>4, <1>5
<1> QED BY <1>2, <1>5, <1>6, <1>7, AfterCheck

LEMMA OnNetworkBehaves ==
    ASSUME IInv, NEW f \in Flows, flow[f].pc = "checking", Becomes(OnNetwork(W, f)) PROVE Behaves
<1>1. Sound(W) /\ Shown(W) /\ W.f[f].pc = "checking" /\ W.f[f] = flow[f]
    BY WorldFields DEF IInv
<1>2. W.f[f].kind # "rescan" BY <1>1, PlaceFacts
<1> DEFINE n == [W EXCEPT !.c.probe = None]
           s == NotRunning(n)
           u == Free(s, f)
<1>3. Becomes(IF W.f[f].live THEN AddToHa(u, f) ELSE Return(s, f)) BY DEF OnNetwork
<1>4. Fine(W, n) /\ n.f = W.f /\ n.p = W.p /\ n.c.probe # f BY <1>1, NoProbeFine
<1> HIDE DEF n
<1>5. Sound(n) /\ Shown(n) BY <1>4 DEF Fine
<1>6. s \in World /\ Frees(n, s) /\ s.p = n.p BY <1>5, NotRunningKeeps
<1> HIDE DEF s
<1>7. Sound(s) /\ Shown(s) /\ Fine(n, s) /\ s.f = n.f /\ s.c.probe = n.c.probe
    BY <1>5, <1>6, TidyKeeps
<1>8. Fine(W, s) BY <1>4, <1>7, FineFine
<1>9. CASE W.f[f].live
  <2>1. u \in World /\ Frees(s, u) /\ u.p.lock # f BY <1>7, FreeKeeps
  <2> HIDE DEF u
  <2>2. Sound(u) /\ Fine(s, u) /\ u.f = s.f /\ u.c.probe = s.c.probe
      BY <1>7, <2>1, TidyKeeps
  <2>3. u.c.probe # f /\ u.f[f].live /\ u.f[f].kind # "rescan"
      BY <1>2, <1>4, <1>7, <1>9, <2>2
  <2>4. Puts(u, AddToHa(u, f), f) /\ AddToHa(u, f).f[f].live /\ AddToHa(u, f).f[f].pc = "adding"
      BY <2>1, <2>2, <2>3, AddPuts
  <2>5. Fine(u, AddToHa(u, f)) BY <2>4, LiveFine
  <2>6. Fine(W, AddToHa(u, f)) BY <1>8, <2>2, <2>5, FineFine
  <2> QED BY <1>3, <1>9, <2>6, FineBehaves
<1>10. CASE ~W.f[f].live
  <2>1. s.c.probe # f /\ s.p = W.p /\ ~s.f[f].live BY <1>4, <1>6, <1>7, <1>10
  <2>2. ~flow[f].live /\ flow[f].kind # "rescan" BY <1>1, <1>2, <1>10
  <2> QED BY <1>3, <1>8, <1>10, <2>1, <2>2, LeaveBehaves
<1> QED BY <1>9, <1>10

LEMMA CheckWakesBehaves == ASSUME IInv, NEW f \in Flows, CheckWakes(f) PROVE Behaves
<1>1. Sound(W) /\ Shown(W) /\ W.f[f].pc = "checkWakes" BY WorldFields DEF IInv, CheckWakes
<1>2. W.p.lock # f /\ W.f[f].kind # "rescan" BY <1>1, PlaceFacts DEF Holding
<1>3. CASE Becomes(Awake(W, f, "checking"))
  <2>1. /\ Puts(W, Awake(W, f, "checking"), f) /\ Awake(W, f, "checking").f[f].pc = "checking"
        /\ Shown(Awake(W, f, "checking"))
      BY <1>1, <1>2, AwakePuts
  <2>2. Fine(W, Awake(W, f, "checking")) BY <2>1, PutsFine
  <2> QED BY <1>3, <2>2, FineBehaves
<1>4. CASE Becomes(CheckFailed(W, f)) BY <1>4, CheckFailedBehaves
<1> QED BY <1>3, <1>4 DEF CheckWakes

LEMMA CheckEndsBehaves == ASSUME IInv, NEW f \in Flows, CheckEnds(f) PROVE Behaves
BY CheckFailedBehaves, OnNetworkBehaves, OffNetworkBehaves DEF CheckEnds

LEMMA PortChosenBehaves == ASSUME IInv, NEW f \in Flows, PortChosen(f) PROVE Behaves
<1>1. Sound(W) /\ Shown(W) /\ W.f[f].pc = "choosing" /\ W.f[f] = flow[f]
    BY WorldFields DEF IInv, PortChosen
<1>2. W.c.probe # f /\ W.p.lock # f /\ W.f[f].kind # "rescan"
    BY <1>1, PlaceFacts DEF Probing, Holding
<1> DEFINE h == [W EXCEPT !.c.hasPort = TRUE]
           w == IF flow[f].kind = "config" THEN h ELSE W
           n == NotRunning(w)
<1>3. Becomes(CASE ~flow[f].live -> Return(n, f)
                [] flow[f].live /\ flow[f].kind = "config" -> Scan(w, f)
                [] flow[f].live /\ flow[f].kind = "auto" -> Detect(w, f)
                [] OTHER -> BeginFlash(w, f))
    BY DEF PortChosen
<1>4. h \in World /\ Frees(W, h) BY <1>1, UsbAssumption, FieldKeeps
<1>5. w \in World /\ Frees(W, w) BY <1>1, <1>4 DEF Frees, Sound
<1> HIDE DEF w
<1>6. /\ Sound(w) /\ Shown(w) /\ Fine(W, w) /\ w.f = W.f /\ w.c.probe = W.c.probe
      /\ w.p.lock # f
    BY <1>1, <1>2, <1>5, TidyKeeps
<1>7. CASE ~flow[f].live
  <2>1. n \in World /\ Frees(w, n) BY <1>6, NotRunningKeeps
  <2>2. Becomes(Return(n, f)) BY <1>3, <1>7
  <2> HIDE DEF n
  <2>3. Fine(w, n) /\ n.f = w.f /\ n.c.probe = w.c.probe /\ n.p.lock # f
      BY <1>6, <2>1, TidyKeeps
  <2>4. Fine(W, n) BY <1>6, <2>3, FineFine
  <2>5. n.c.probe # f /\ ~n.f[f].live BY <1>1, <1>2, <1>6, <1>7, <2>3
  <2> QED BY <2>2, <2>3, <2>4, <2>5, ReturnBehaves
<1>8. CASE flow[f].live
  <2>1. w.f[f].live /\ w.f[f].kind # "rescan" /\ w.c.probe # f BY <1>1, <1>2, <1>6, <1>8
  <2>2. Puts(w, Scan(w, f), f) /\ Scan(w, f).f[f].live /\ Scan(w, f).f[f].pc = "scanWakes"
      BY <1>6, <2>1, ScanPuts
  <2>3. Fine(w, Scan(w, f)) BY <2>2, LiveFine
  <2>4. Fine(w, Detect(w, f)) BY <1>6, <2>1, DetectFine
  <2>5. Puts(w, BeginFlash(w, f), f) /\ BeginFlash(w, f).f[f].live
        /\ BeginFlash(w, f).f[f].pc # "free"
      BY <1>6, <2>1, BeginFlashPuts
  <2>6. Fine(w, BeginFlash(w, f)) BY <2>5, LiveFine
  <2>7. Becomes(Scan(w, f)) \/ Becomes(Detect(w, f)) \/ Becomes(BeginFlash(w, f))
      BY <1>3, <1>8
  <2> QED BY <1>6, <2>3, <2>4, <2>6, <2>7, FineFine, FineBehaves
<1> QED BY <1>7, <1>8

LEMMA ChooserDismissedBehaves == ASSUME IInv, NEW f \in Flows, ChooserDismissed(f) PROVE Behaves
<1>1. Sound(W) /\ Shown(W) /\ W.f[f].pc = "choosing" /\ W.f[f] = flow[f]
    BY WorldFields DEF IInv, ChooserDismissed
<1>2. W.c.probe # f /\ W.p.lock # f BY <1>1, PlaceFacts DEF Probing, Holding
<1> DEFINE w == IF flow[f].kind = "flash" /\ flow[f].live THEN W ELSE NotRunning(W)
           r == ResetUsbState(w)
<1>3. Becomes(Return(IF flow[f].live THEN r ELSE w, f)) BY DEF ChooserDismissed
<1>4. w \in World /\ Frees(W, w) BY <1>1, NotRunningKeeps DEF Frees, Sound
<1> HIDE DEF w
<1>5. /\ Sound(w) /\ Shown(w) /\ Fine(W, w) /\ w.f = W.f /\ w.c.probe = W.c.probe
      /\ w.p.lock # f
    BY <1>1, <1>2, <1>4, TidyKeeps
<1>6. CASE flow[f].live
  <2>1. /\ Fine(w, r) /\ r.c.probe = None /\ r.p.lock \in {w.p.lock, "free"} /\ ~r.f[f].live
      BY <1>5, ResetKeeps, ResetFine
  <2> HIDE DEF r
  <2>2. Fine(W, r) BY <1>5, <2>1, FineFine
  <2>3. r.c.probe # f /\ r.p.lock # f BY <1>5, <2>1, UsbAssumption
  <2> QED BY <1>3, <1>6, <2>1, <2>2, <2>3, ReturnBehaves
<1>7. CASE ~flow[f].live
  <2>1. w.c.probe # f /\ ~w.f[f].live BY <1>1, <1>2, <1>5, <1>7
  <2> QED BY <1>3, <1>5, <1>7, <2>1, ReturnBehaves
<1> QED BY <1>6, <1>7

LEMMA ChooserFailsBehaves == ASSUME IInv, NEW f \in Flows, ChooserFails(f) PROVE Behaves
<1>1. Sound(W) /\ Shown(W) /\ W.f[f].pc = "choosing" BY WorldFields DEF IInv, ChooserFails
<1>2. W.c.probe # f /\ W.p.lock # f BY <1>1, PlaceFacts DEF Probing, Holding
<1>3. Fine(W, Fails(W, f)) BY <1>1, <1>2, FailsFine
<1> QED BY <1>3, FineBehaves DEF ChooserFails

LEMMA DetectedBehaves == ASSUME IInv, NEW f \in Flows, Detected(f) PROVE Behaves
<1>1. Sound(W) /\ Shown(W) /\ W.f[f].pc = "detecting" /\ W.f[f] = flow[f]
    BY WorldFields DEF IInv, Detected
<1> DEFINE u == Free(W, f)
           b == [u EXCEPT !.c.probe = None]
           t == IF flow[f].opened THEN TryClose(b) ELSE b
           w == NotRunning(t)
           s == Show(w, "select_variant")
<1>2. IF ~flow[f].live THEN Becomes(Return(w, f))
      ELSE Becomes(Return(s, f)) \/ Becomes(Flash(w, f, "wifi"))
    BY DEF Detected
<1>3. u \in World /\ Frees(W, u) /\ u.p.lock # f BY <1>1, FreeKeeps
<1> HIDE DEF u
<1>4. Sound(u) /\ Shown(u) /\ Fine(W, u) /\ u.f = W.f BY <1>1, <1>3, TidyKeeps
<1>5. Fine(u, b) /\ b.f = u.f /\ b.p = u.p /\ b.c.probe # f BY <1>4, NoProbeFine
<1> HIDE DEF b
<1>6. Sound(b) /\ Shown(b) /\ b.p.lock # f BY <1>3, <1>5 DEF Fine
<1>7. t \in World /\ Frees(b, t) BY <1>6, TryCloseKeeps DEF Frees, Sound
<1> HIDE DEF t
<1>8. Sound(t) /\ Shown(t) /\ Fine(b, t) /\ t.f = b.f /\ t.c.probe # f /\ t.p.lock # f
    BY <1>5, <1>6, <1>7, TidyKeeps
<1>9. w \in World /\ Frees(t, w) BY <1>8, NotRunningKeeps
<1> HIDE DEF w
<1>10. Sound(w) /\ Fine(t, w) /\ w.f = t.f /\ w.c.probe # f /\ w.p.lock # f
    BY <1>8, <1>9, TidyKeeps
<1>11. Fine(W, w) BY <1>4, <1>5, <1>8, <1>10, FineFine
<1>12. ASSUME ~flow[f].live PROVE Behaves
  <2>1. ~w.f[f].live BY <1>1, <1>4, <1>5, <1>8, <1>10, <1>12
  <2> QED BY <1>2, <1>10, <1>11, <1>12, <2>1, ReturnBehaves
<1>13. ASSUME Becomes(Return(s, f)) PROVE Behaves
  <2>1. "select_variant" \in Steps \ Working BY DEF Steps, Working
  <2>2. Fine(w, s) /\ Calm(s) /\ s.p = w.p /\ s.c.probe = w.c.probe BY <1>10, <2>1, CalmFine
  <2> HIDE DEF s
  <2>3. Fine(W, s) BY <1>11, <2>2, FineFine
  <2> QED BY <1>10, <1>13, <2>2, <2>3, ReturnBehaves
<1>14. ASSUME Becomes(Flash(w, f, "wifi")) PROVE Behaves
  <2>1. Fine(w, Flash(w, f, "wifi")) BY <1>10, FlashFine DEF Variants
  <2> QED BY <1>11, <1>14, <2>1, FineFine, FineBehaves
<1> QED BY <1>2, <1>12, <1>13, <1>14

LEMMA ProvisionFailsBehaves == ASSUME IInv, NEW f \in Flows, ProvisionFails(f) PROVE Behaves
<1>1. Sound(W) /\ Shown(W) /\ W.f[f].pc \in {"sending", "reading"} /\ W.f[f] = flow[f]
    BY WorldFields DEF IInv, ProvisionFails
<1>2. W.c.probe # f /\ (W.p.lock = f => W.c.kept) BY <1>1, PlaceFacts DEF Probing
<1> DEFINE w == ReleaseKept(W)
           e == ShowError(w, "wifi", "wifi")
<1>3. Becomes(Return(IF flow[f].live THEN e ELSE w, f)) BY DEF ProvisionFails
<1>4. w \in World /\ Frees(W, w) /\ w.p.lock # f
    BY <1>1, <1>2, UsbAssumption, ReleaseKeeps DEF Frees
<1> HIDE DEF w
<1>5. Sound(w) /\ Fine(W, w) /\ w.f = W.f /\ w.c.probe = W.c.probe BY <1>1, <1>4, TidyKeeps
<1>6. CASE flow[f].live
  <2>1. Fine(w, e) /\ Calm(e) /\ e.p = w.p /\ e.c.probe = w.c.probe
      BY <1>5, ErrorFine DEF Variants
  <2> HIDE DEF e
  <2>2. Fine(W, e) BY <1>5, <2>1, FineFine
  <2> QED BY <1>2, <1>3, <1>4, <1>5, <1>6, <2>1, <2>2, ReturnBehaves
<1>7. CASE ~flow[f].live
    BY <1>1, <1>2, <1>3, <1>4, <1>5, <1>7, ReturnBehaves
<1> QED BY <1>6, <1>7

LEMMA CredentialsSentBehaves == ASSUME IInv, NEW f \in Flows, CredentialsSent(f) PROVE Behaves
<1>1. Sound(W) /\ Shown(W) /\ W.f[f].pc = "sending" /\ W.f[f] = flow[f] /\ W.p.lock = f
    BY WorldFields DEF IInv, CredentialsSent
<1>2. W.c.probe # f /\ W.c.kept /\ W.f[f].kind # "rescan" BY <1>1, PlaceFacts DEF Probing
<1> DEFINE s == Show(W, "reading_ip")
           a == At(s, f, "reading")
<1>3. Becomes(IF flow[f].live THEN a ELSE Return(W, f)) BY DEF CredentialsSent
<1>4. CASE flow[f].live
  <2>1. Puts(W, s, f) /\ s.f = W.f /\ s.p = W.p /\ s.c.probe = W.c.probe /\ s.c.kept = W.c.kept
      BY <1>1, ShowPuts DEF Steps
  <2> HIDE DEF s
  <2>2. Sound(s) BY <2>1 DEF Puts
  <2>3. "reading" \in Places \ {"free"} /\ "reading" \in Holding BY DEF Places, Holding
  <2>4. s.f[f].kind = "rescan" => "reading" \in {"scanWakes", "scanning"} BY <1>2, <2>1
  <2>5. s.c.probe = f => "reading" \in Probing BY <1>2, <2>1
  <2>6. s.p.lock = f => /\ "reading" \in Holding
                        /\ "reading" \in {"sending", "reading"} => s.c.kept
      BY <1>2, <2>1, <2>3
  <2>7. Puts(s, a, f) /\ a.f[f].pc = "reading" /\ a.f[f].live = s.f[f].live
      BY <2>2, <2>3, <2>4, <2>5, <2>6, AtPuts
  <2> HIDE DEF a
  <2>8. Puts(W, a, f) /\ a.f[f].live /\ a.f[f].pc # "free"
      BY <1>1, <1>4, <2>1, <2>7, PutsPuts
  <2>9. Fine(W, a) BY <2>8, LiveFine
  <2> QED BY <1>3, <1>4, <2>9, FineBehaves
<1>5. CASE ~flow[f].live
  <2>1. Fine(W, W) BY <1>1 DEF Fine, Keeps
  <2> QED BY <1>1, <1>2, <1>3, <1>5, <2>1, ReturnBehaves
<1> QED BY <1>4, <1>5

LEMMA AddressReadBehaves == ASSUME IInv, NEW f \in Flows, AddressRead(f) PROVE Behaves
<1>1. Sound(W) /\ Shown(W) /\ W.f[f].pc = "reading" /\ W.f[f] = flow[f] /\ W.p.lock = f
    BY WorldFields DEF IInv, AddressRead
<1>2. W.c.probe # f /\ W.c.kept /\ W.f[f].kind # "rescan" BY <1>1, PlaceFacts DEF Probing
<1> DEFINE u == Free(W, f)
           t == [TryClose(u) EXCEPT !.c.hasPort = FALSE]
<1>3. Becomes(IF ~flow[f].live THEN Return(W, f) ELSE AddToHa(t, f)) BY DEF AddressRead
<1>4. CASE flow[f].live
  <2>1. u \in World /\ Frees(W, u) /\ u.p.lock # f BY <1>1, FreeKeeps
  <2> HIDE DEF u
  <2>2. Sound(u) /\ Shown(u) /\ Fine(W, u) /\ u.f = W.f /\ u.c.probe = W.c.probe
      BY <1>1, <2>1, TidyKeeps
  <2>3. t \in World /\ Frees(u, t) BY <2>2, CloseKeeps
  <2> HIDE DEF t
  <2>4. Sound(t) /\ Fine(u, t) /\ t.f = u.f /\ t.c.probe = u.c.probe /\ t.p.lock # f
      BY <2>1, <2>2, <2>3, TidyKeeps
  <2>5. t.c.probe # f /\ t.f[f].live /\ t.f[f].kind # "rescan"
      BY <1>1, <1>2, <1>4, <2>2, <2>4
  <2>6. Puts(t, AddToHa(t, f), f) /\ AddToHa(t, f).f[f].live /\ AddToHa(t, f).f[f].pc = "adding"
      BY <2>4, <2>5, AddPuts
  <2>7. Fine(t, AddToHa(t, f)) BY <2>6, LiveFine
  <2>8. Fine(W, AddToHa(t, f)) BY <2>2, <2>4, <2>7, FineFine
  <2> QED BY <1>3, <1>4, <2>8, FineBehaves
<1>5. CASE ~flow[f].live
  <2>1. Fine(W, W) BY <1>1 DEF Fine, Keeps
  <2> QED BY <1>1, <1>2, <1>3, <1>5, <2>1, ReturnBehaves
<1> QED BY <1>4, <1>5

-----------------------------------------------------------------------------
(* The buttons                                                             *)

LEMMA FreeFacts ==
    ASSUME IInv, NEW f \in FreeFlows
    PROVE  f \in Flows /\ Sound(W) /\ Shown(W) /\ W.c.probe # f /\ W.p.lock # f
<1>1. f \in Flows /\ W.f[f].pc = "free" BY WorldFields DEF FreeFlows
<1>2. W.c.probe # f /\ W.p.lock # f BY <1>1, PlaceFacts DEF IInv, Probing, Holding
<1> QED BY <1>1, <1>2 DEF IInv

LEMMA RetryHaAddBehaves == ASSUME IInv, RetryHaAdd PROVE Behaves
<1>1. PICK f \in FreeFlows :
        Becomes(At(Show(Begun(W, f, "add"), "wifi_configured"), f, "adding"))
    BY DEF RetryHaAdd
<1>2. f \in Flows /\ Sound(W) /\ W.c.probe # f /\ W.p.lock # f BY FreeFacts
<1> DEFINE n == Begun(W, f, "add")
           s == Show(n, "wifi_configured")
           a == At(s, f, "adding")
<1>3. Puts(W, n, f) /\ n.c = W.c /\ n.p = W.p /\ n.f[f].live /\ n.f[f].kind = "add"
  <2>1. "add" \in Kinds BY DEF Kinds
  <2> QED BY <1>2, <2>1, BegunPuts
<1>4. Sound(n) BY <1>3 DEF Puts
<1> HIDE DEF n
<1>5. Puts(n, s, f) /\ s.f = n.f /\ s.p = n.p /\ s.c.probe = n.c.probe
    BY <1>4, ShowPuts DEF Steps
<1>6. Sound(s) BY <1>5 DEF Puts
<1> HIDE DEF s
<1>7. Puts(s, a, f) /\ a.f[f].pc = "adding" /\ a.f[f].live = s.f[f].live
  <2>1. "adding" \in Places \ {"free"} BY DEF Places
  <2>2. s.f[f].kind # "rescan" /\ s.c.probe # f /\ s.p.lock # f BY <1>2, <1>3, <1>5
  <2> QED BY <1>2, <1>6, <2>1, <2>2, GoesPuts
<1> HIDE DEF a
<1>8. Puts(W, a, f) /\ a.f[f].live /\ a.f[f].pc # "free" BY <1>3, <1>5, <1>7, PutsPuts
<1>9. Fine(W, a) BY <1>2, <1>8, LiveFine
<1> QED BY <1>1, <1>9, FineBehaves DEF a, s, n

LEMMA HandleWifiScanBehaves == ASSUME IInv, HandleWifiScan PROVE Behaves
<1> DEFINE b == BumpOpId(W)
           r == ReleaseKept(b)
<1>1. PICK f \in FreeFlows : Becomes(Scan(Begun(r, f, "rescan"), f)) BY DEF HandleWifiScan
<1>2. f \in Flows /\ Sound(W) /\ W.c.probe # f /\ W.p.lock # f BY FreeFacts
<1>3. /\ Sound(b) /\ b.c = W.c /\ b.p = W.p
      /\ \A g \in Flows : b.f[g] = [W.f[g] EXCEPT !.live = FALSE]
    BY <1>2, BumpKeeps
<1>4. Real(W) => Real(b)
  <2>1. \A g \in Flows : W.f[g] \in Operation BY <1>2 DEF Sound, World
  <2>2. \A g \in Flows : ~b.f[g].live /\ b.f[g].waiter = W.f[g].waiter /\ b.f[g].pc = W.f[g].pc
    <3>1. TAKE g \in Flows
    <3>2. W.f[g] \in Operation /\ b.f[g] = [W.f[g] EXCEPT !.live = FALSE] BY <1>3, <2>1
    <3> QED BY <3>2 DEF Operation
  <2> QED BY <2>2 DEF Real
<1> HIDE DEF b
<1>5. r \in World /\ Frees(b, r) BY <1>3, ReleaseKeeps
<1> HIDE DEF r
<1>6. /\ Sound(r) /\ Keeps(b, r) /\ (Real(b) => Real(r)) /\ r.c.probe # f /\ r.p.lock # f
    BY <1>2, <1>3, <1>5, FreesKeeps, UsbAssumption DEF Frees
<1> DEFINE n == Begun(r, f, "rescan")
<1>7. Puts(r, n, f) /\ n.c = r.c /\ n.p = r.p /\ n.f[f].live
  <2>1. "rescan" \in Kinds BY DEF Kinds
  <2> QED BY <1>2, <1>6, <2>1, BegunPuts
<1>8. Sound(n) /\ n.c.probe # f /\ n.p.lock # f BY <1>6, <1>7 DEF Puts
<1> HIDE DEF n
<1>9. Puts(n, Scan(n, f), f) /\ Scan(n, f).f[f].live /\ Scan(n, f).f[f].pc = "scanWakes"
    BY <1>2, <1>7, <1>8, ScanPuts
<1>10. Fine(r, Scan(n, f)) BY <1>2, <1>7, <1>9, PutsPuts, LiveFine
<1>11. Fine(W, Scan(n, f)) BY <1>3, <1>4, <1>6, <1>10 DEF Fine, Keeps
<1>12. Becomes(Scan(n, f)) BY <1>1 DEF n
<1> QED BY <1>11, <1>12, FineBehaves

LEMMA FlashAutoBehaves == ASSUME IInv, FlashAuto PROVE Behaves
<1>1. PICK f \in FreeFlows :
        Becomes(IF ctrl.running THEN Busy(W)
                ELSE At(Show([Begun(W, f, "auto") EXCEPT !.c.running = TRUE], "connecting"),
                        f, "choosing"))
    BY DEF FlashAuto
<1>2. f \in Flows /\ Sound(W) /\ W.c.probe # f /\ W.p.lock # f BY FreeFacts
<1>3. CASE ctrl.running
    BY <1>1, <1>2, <1>3, BusyFine, FineBehaves
<1>4. CASE ~ctrl.running
  <2> DEFINE n == Begun(W, f, "auto")
             b == [n EXCEPT !.c.running = TRUE]
             v == At(Show(b, "connecting"), f, "choosing")
  <2>1. Becomes(v) BY <1>1, <1>4
  <2>2. Puts(W, n, f) /\ n.c = W.c /\ n.p = W.p /\ n.f[f].live /\ n.f[f].kind = "auto"
    <3>1. "auto" \in Kinds BY DEF Kinds
    <3> QED BY <1>2, <3>1, BegunPuts
  <2>3. Sound(n) BY <2>2 DEF Puts
  <2> HIDE DEF n
  <2>4. b \in World /\ Frees(n, b) /\ b.p = n.p BY <2>3, UsbAssumption, FieldKeeps
  <2>5. Puts(n, b, f) /\ Sound(b) BY <2>3, <2>4, FreesPuts DEF Puts
  <2>6. b.f = n.f /\ b.c.probe = n.c.probe BY <2>4 DEF Frees
  <2> HIDE DEF b
  <2>7. b.c.probe # f /\ b.p.lock # f /\ b.f[f].live /\ b.f[f].kind # "rescan"
      BY <1>2, <2>2, <2>4, <2>6
  <2>8. Puts(b, v, f) /\ v.f[f].live /\ v.f[f].pc # "free" BY <1>2, <2>5, <2>7, ChoosePuts
  <2> HIDE DEF v
  <2>9. Fine(W, v) BY <1>2, <2>2, <2>5, <2>8, PutsPuts, LiveFine
  <2> QED BY <2>1, <2>9, FineBehaves
<1> QED BY <1>3, <1>4

LEMMA ConfigWifiFirstBehaves == ASSUME IInv, ConfigWifiFirst PROVE Behaves
<1>1. PICK f \in FreeFlows : Becomes(ConfigWifi(W, f)) BY DEF ConfigWifiFirst
<1>2. Fine(W, ConfigWifi(W, f)) BY FreeFacts, ConfigFine
<1> QED BY <1>1, <1>2, FineBehaves

LEMMA FlashVariantBehaves == ASSUME IInv, FlashVariant PROVE Behaves
<1>1. PICK f \in FreeFlows, x \in Variants : Becomes(Flash(W, f, x))
    BY DEF FlashVariant, Variants
<1>2. Fine(W, Flash(W, f, x)) BY FreeFacts, FlashFine
<1> QED BY <1>1, <1>2, FineBehaves

LEMMA HandleWifiProvisionBehaves == ASSUME IInv, HandleWifiProvision PROVE Behaves
<1> DEFINE w == ReleaseKept(W)
<1>1. Sound(W) /\ Shown(W) BY DEF IInv
<1>2. w \in World /\ Frees(W, w) BY <1>1, ReleaseKeeps
<1>3. Fine(W, w) BY <1>1, <1>2, FreesFine
<1>4. \/ Becomes(ShowError(W, "wifi", "wifi"))
      \/ Becomes(w)
      \/ w.p.lock = "free" /\ \E f \in FreeFlows :
            Becomes([Show(Begun(w, f, "provision"), "wifi_connecting") EXCEPT
                        !.p.lock = f, !.c.kept = TRUE, !.f[f].pc = "sending"])
    BY DEF HandleWifiProvision
<1> HIDE DEF w
<1>5. CASE Becomes(ShowError(W, "wifi", "wifi"))
  <2>1. Fine(W, ShowError(W, "wifi", "wifi")) BY <1>1, ErrorFine DEF Variants
  <2> QED BY <1>5, <2>1, FineBehaves
<1>6. CASE Becomes(w) BY <1>3, <1>6, FineBehaves
<1>7. CASE w.p.lock = "free" /\ \E f \in FreeFlows :
            Becomes([Show(Begun(w, f, "provision"), "wifi_connecting") EXCEPT
                        !.p.lock = f, !.c.kept = TRUE, !.f[f].pc = "sending"])
  <2>1. PICK f \in FreeFlows :
            Becomes([Show(Begun(w, f, "provision"), "wifi_connecting") EXCEPT
                        !.p.lock = f, !.c.kept = TRUE, !.f[f].pc = "sending"])
      BY <1>7
  <2>2. f \in Flows /\ W.c.probe # f BY FreeFacts
  <2>3. Sound(w) /\ w.c.probe # f /\ w.p.lock # f
      BY <1>3, <1>2, <1>7, <2>2, UsbAssumption DEF Fine, Frees
  <2> DEFINE v == [Show(Begun(w, f, "provision"), "wifi_connecting") EXCEPT
                        !.p.lock = f, !.c.kept = TRUE, !.f[f].pc = "sending"]
  <2>4. Fine(w, v) BY <2>2, <2>3, SendFine
  <2>5. Becomes(v) BY <2>1
  <2> HIDE DEF v
  <2> QED BY <1>3, <2>4, <2>5, FineFine, FineBehaves
<1> QED BY <1>4, <1>5, <1>6, <1>7

LEMMA HandleUsbRetryBehaves == ASSUME IInv, HandleUsbRetry PROVE Behaves
<1> DEFINE w == ReleaseKept(W)
           x == ctrl.screen.variant
<1>1. Sound(W) /\ Shown(W) BY DEF IInv
<1>2. w \in World /\ Frees(W, w) BY <1>1, ReleaseKeeps
<1>3. PICK f \in FreeFlows : Becomes(Flash(w, f, x)) \/ Becomes(ConfigWifi(w, f))
    BY DEF HandleUsbRetry
<1>4. f \in Flows /\ W.c.probe # f /\ W.p.lock # f BY FreeFacts
<1>5. x \in Variants BY <1>1, WorldFields DEF Sound, World, Controller, Screens
<1> HIDE DEF w, x
<1>6. Sound(w) /\ Fine(W, w) /\ w.c.probe # f /\ w.p.lock # f
    BY <1>1, <1>2, <1>4, TidyKeeps
<1>7. Fine(w, Flash(w, f, x)) BY <1>4, <1>5, <1>6, FlashFine
<1>8. Fine(w, ConfigWifi(w, f)) BY <1>4, <1>6, ConfigFine
<1> QED BY <1>3, <1>6, <1>7, <1>8, FineFine, FineBehaves

LEMMA EndsBehave ==
    ASSUME IInv, HandleFlasherCancel \/ SwitchTab \/ LeavePage PROVE Behaves
<1>1. Sound(W) /\ Shown(W) BY DEF IInv
<1>2. CASE HandleFlasherCancel
  <2> DEFINE n == NotRunning(W)
  <2>1. n \in World /\ Frees(W, n) BY <1>1, NotRunningKeeps
  <2>2. Becomes(ResetUsbState(n)) BY <1>2 DEF HandleFlasherCancel
  <2> HIDE DEF n
  <2>3. Sound(n) /\ Fine(W, n) BY <1>1, <2>1, FreesKeeps, FreesFine
  <2>4. Fine(n, ResetUsbState(n)) BY <2>3, ResetFine
  <2> QED BY <2>2, <2>3, <2>4, FineFine, FineBehaves
<1>3. CASE SwitchTab
  <2>1. Fine(W, ResetUsbState(W)) BY <1>1, ResetFine
  <2> QED BY <1>3, <2>1, FineBehaves DEF SwitchTab
<1>4. CASE LeavePage
  <2>1. Fine(W, TearDownSerialPort(W)) BY <1>1, TearDownKeeps, FreesFine
  <2> QED BY <1>4, <2>1, FineBehaves DEF LeavePage
<1> QED BY <1>2, <1>3, <1>4

-----------------------------------------------------------------------------
(* The theorems                                                            *)

LEMMA StepBehaves == ASSUME IInv, Next PROVE Behaves
<1>1. ASSUME NEW f \in Flows, Step(f) PROVE Behaves
    BY <1>1, HaAnswersBehaves, BackoffBehaves, DeviceListedBehaves, ScanWakesBehaves,
       ScanEndsBehaves, FlashRefusedBehaves, LoaderAnswersBehaves, ConfirmedBehaves,
       DeclinedBehaves, ProgressBehaves, FlashFailsBehaves, WrittenBehaves, CheckWakesBehaves,
       CheckEndsBehaves, PortChosenBehaves, ChooserDismissedBehaves, ChooserFailsBehaves,
       DetectedBehaves, ProvisionFailsBehaves, CredentialsSentBehaves, AddressReadBehaves
    DEF Step
<1>2. ASSUME Click PROVE Behaves
    BY <1>2, RetryHaAddBehaves, HandleWifiScanBehaves, FlashAutoBehaves, ConfigWifiFirstBehaves,
       FlashVariantBehaves, HandleWifiProvisionBehaves, HandleUsbRetryBehaves, EndsBehave
    DEF Click
<1> QED BY <1>1, <1>2 DEF Next

LEMMA BehavesFacts ==
    ASSUME Behaves
    PROVE  IInv' /\ (port'.lock = "lost" => port.lock = "lost" \/ Excused)
<1>1. PICK x : Becomes(x) /\ Lawful(x) BY DEF Behaves
<1>2. x = W'
  <2>1. x \in World BY <1>1 DEF Lawful, Sound
  <2>2. x = [c |-> x.c, p |-> x.p, f |-> x.f] BY <2>1 DEF World
  <2>3. W' = [c |-> x.c, p |-> x.p, f |-> x.f] BY <1>1 DEF Becomes, W
  <2> QED BY <2>2, <2>3
<1>3. Sound(W') /\ Shown(W') /\ Real(W') BY <1>1, <1>2 DEF Lawful
<1>4. IInv' BY <1>3 DEF IInv, Sound, Shown, Real, World, Calm, Proper
<1>5. port' = x.p BY <1>1 DEF Becomes
<1> QED BY <1>1, <1>4, <1>5 DEF Lawful

\* The inductive invariant holds always: types, the owner of the streams and of the
\* probe, and the screen.
THEOREM Invariance == Spec => []IInv
<1>1. Init => IInv BY Start DEF IInv
<1>2. ASSUME IInv, [Next]_vars PROVE IInv'
  <2>1. CASE Next BY <1>2, <2>1, StepBehaves, BehavesFacts
  <2>2. CASE UNCHANGED vars
    <3>1. W' = W BY <2>2 DEF vars, W
    <3> QED BY <1>2, <3>1 DEF IInv, Sound, Shown, Real, World, Calm, Proper
  <2> QED BY <1>2, <2>1, <2>2
<1> QED BY <1>1, <1>2, PTL DEF Spec

TypeOK == W \in World

\* Controller, port and operations have their types.
THEOREM TypeCorrect == Spec => []TypeOK
<1>1. IInv => TypeOK BY DEF IInv, Sound, TypeOK
<1> QED BY <1>1, Invariance, PTL

\* A screen that promises work has somebody at work, whatever is begun, cancelled,
\* retried and left behind.
THEOREM PromisesWork == Spec => []ProgressHasFlow
<1>1. IInv => ProgressHasFlow
    BY DEF IInv, Shown, Calm, Real, ProgressHasFlow, Underway, W
<1> QED BY <1>1, Invariance, PTL

\* Only a first scan or a check that was superseded loses the streams.
THEOREM LosesNoOtherLock == Spec => OnlyScansLoseLocks
<1> DEFINE A == port'.lock = "lost" /\ port.lock # "lost" =>
                  \E f \in Flows : /\ port.lock = f /\ ~flow[f].live
                                  /\ flow[f].pc \in {"scanning", "checking"}
                                  /\ flow[f].kind # "rescan"
<1>1. ASSUME IInv, [Next]_vars PROVE [A]_vars
  <2>1. CASE Next BY <1>1, <2>1, StepBehaves, BehavesFacts DEF Excused
  <2>2. CASE UNCHANGED vars BY <2>2
  <2> QED BY <1>1, <2>1, <2>2
<1> HIDE DEF A
<1>2. Spec => [][A]_vars BY <1>1, Invariance, PTL DEF Spec
<1> QED BY <1>2, PTL DEF OnlyScansLoseLocks, A

=============================================================================
