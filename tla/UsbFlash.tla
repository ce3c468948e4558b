------------------------------ MODULE UsbFlash ------------------------------
(***************************************************************************)
(* Flashing a device and giving it Wi-Fi over a USB cable: the operations  *)
(* of the flasher (controllers/usb-flash-flow.ts), their owner             *)
(* (controllers/flasher-controller.ts), the serial port they share as      *)
(* lib/usb-flash-service.ts and lib/device-model.ts use it, and the        *)
(* buttons the view offers on each screen.                                 *)
(*                                                                         *)
(* An operation is an async function under way; a step runs from one await *)
(* to the next.  opId only tells whether an operation has been superseded  *)
(* since it began: `live`.  The port cannot be closed while a stream of it *)
(* is locked, and is reader and writer in one here: every operation takes  *)
(* and releases both together.  The user has one device on the cable; its  *)
(* port can always be opened, and an idle one closes before the next click.*)
(***************************************************************************)
EXTENDS Naturals, FiniteSets

CONSTANTS
    Flows,       \* bound: operations that are under way at one time
    MaxAttempts, \* HA_ADD_MAX_ATTEMPTS
    None

ASSUME UsbAssumption ==
    /\ None \notin Flows /\ MaxAttempts \in Nat \ {0}
    /\ Flows \cap {"free", "kept", "lost"} = {}

VARIABLES
    ctrl,   \* screen: usbFlashState; running: opRunning; hasPort: _serialPort is set;
            \* probe: the operation behind _wifiCheckPromise; kept: _serialReader and
            \* _serialWriter are the locks in force; dialog: who asks to delete
    port,   \* open; stub: close() does nothing; lock: the operation that holds the
            \* streams, or "kept" by the controller between two operations, or "lost"
            \* to nobody who could release them, or "free"
    flow    \* the operations

vars == <<ctrl, port, flow>>

\* kind: which handler; variant: the firmware; opened: the detection opened the port;
\* orig: close() was stubbed before; waiter: a reset waits for it to settle.
NoFlow == [kind |-> "none", pc |-> "free", live |-> FALSE, variant |-> "wifi", attempt |-> 1,
           opened |-> FALSE, orig |-> FALSE, waiter |-> FALSE]
NoScreen == [step |-> "none", retry |-> "none", variant |-> "wifi"]

W == [c |-> ctrl, p |-> port, f |-> flow]
Becomes(w) == ctrl' = w.c /\ port' = w.p /\ flow' = w.f
FreeFlows == {f \in Flows : flow[f].pc = "free"}

Init ==
    /\ ctrl = [screen |-> NoScreen, running |-> FALSE, hasPort |-> FALSE, probe |-> None,
               kept |-> FALSE, dialog |-> None]
    /\ port = [open |-> FALSE, lock |-> "free", stub |-> FALSE]
    /\ flow = [f \in Flows |-> NoFlow]

-----------------------------------------------------------------------------
(* Screen, port and locks, on a world w of the three                       *)

Show(w, step) == [w EXCEPT !.c.screen = [NoScreen EXCEPT !.step = step]]
ShowError(w, retry, v) == [w EXCEPT !.c.screen = [step |-> "error", retry |-> retry, variant |-> v]]
At(w, f, pc) == [w EXCEPT !.f[f].pc = pc]
NotRunning(w) == [w EXCEPT !.c.running = FALSE]

\* The service releases what the operation holds.
Free(w, f) == IF w.p.lock = f THEN [w EXCEPT !.p.lock = "free", !.c.kept = FALSE] ELSE w

\* releaseReader(_serialReader), _serialWriter.releaseLock().
ReleaseKept(w) == IF w.c.kept THEN [w EXCEPT !.p.lock = "free", !.c.kept = FALSE] ELSE w

\* close() rejects while a stream is locked; every caller swallows that.
TryClose(w) == IF w.p.stub \/ w.p.lock # "free" THEN w ELSE [w EXCEPT !.p.open = FALSE]

CloseMine(w) == IF w.c.hasPort THEN [TryClose(w) EXCEPT !.c.hasPort = FALSE] ELSE w

TearDownSerialPort(w) == CloseMine(ReleaseKept(w))

Clear(w) == Show(TearDownSerialPort(w), "none")

BumpOpId(w) == [w EXCEPT !.f = [f \in Flows |-> [@[f] EXCEPT !.live = FALSE]]]

\* resetUsbState; behind a probe the rest of it waits until that has settled.
ResetUsbState(w) ==
    LET b == BumpOpId(w)
    IN  IF w.c.probe = None THEN Clear(b)
        ELSE [b EXCEPT !.f[w.c.probe].waiter = TRUE, !.c.probe = None]

\* The operation returns: what it still holds is the controller's, or lost.
Return(w, f) ==
    LET left == IF w.p.lock # f THEN w.p.lock ELSE IF w.c.kept THEN "kept" ELSE "lost"
        e == [w EXCEPT !.p.lock = left, !.f[f] = NoFlow]
    IN  IF w.f[f].waiter THEN Clear(e) ELSE e

\* A new operation of this kind, for the current opId.
Begun(w, f, kind) == [w EXCEPT !.f[f] = [NoFlow EXCEPT !.kind = kind, !.live = TRUE]]

-----------------------------------------------------------------------------
(* Adding the device to Home Assistant                                     *)

\* _addToHa
AddToHa(w, f) == [Show(w, "adding") EXCEPT !.f[f].pc = "adding", !.f[f].attempt = 1]

\* Fault: the next attempt does not ask whether it was superseded.
AnswerAnyway(w, f, result) ==
    CASE result = "cannot_connect" /\ w.f[f].attempt < MaxAttempts ->
           [Show(w, "wifi_configured") EXCEPT !.f[f].pc = "backoff", !.f[f].attempt = @ + 1]
      [] w.f[f].live /\ result = "added" -> At(w, f, "settingUp")
      [] OTHER -> Return(w, f)

\* The answer of addEsphomeDevice: the panel takes over, or another attempt, or
\* the screen that offers one.
Answer(w, f, result) ==
    CASE ~w.f[f].live -> Return(w, f)
      [] w.f[f].live /\ result = "added" -> At(w, f, "settingUp")
      [] w.f[f].live /\ result = "cannot_connect" /\ w.f[f].attempt < MaxAttempts ->
           [Show(w, "wifi_configured") EXCEPT !.f[f].pc = "backoff", !.f[f].attempt = @ + 1]
      [] OTHER -> Return([w EXCEPT !.c.screen =
                            [NoScreen EXCEPT !.step = "complete", !.retry = "add"]], f)

HaAnswers(f) ==
    /\ flow[f].pc = "adding"
    /\ \E r \in {"added", "cannot_connect", "failed"} : Becomes(Answer(W, f, r))

\* _sleepUntilOpChanges
Backoff(f) ==
    /\ flow[f].pc = "backoff"
    /\ Becomes(IF flow[f].live THEN At(W, f, "adding") ELSE Return(W, f))

\* The panel's _onDeviceReadyForSetup: the device shows up in the list, or not.
DeviceListed(f) ==
    /\ flow[f].pc = "settingUp"
    /\ \/ Becomes(IF flow[f].live THEN Return(ResetUsbState(W), f) ELSE Return(W, f))
       \/ flow[f].live /\ Becomes(Return(Show(W, "complete"), f))

\* handleRetryHaAdd
RetryHaAdd ==
    /\ ctrl.screen.step = "complete" /\ ctrl.screen.retry = "add"
    /\ \E f \in FreeFlows :
         Becomes(At(Show(Begun(W, f, "add"), "wifi_configured"), f, "adding"))

-----------------------------------------------------------------------------
(* The scan for Wi-Fi networks                                             *)

Busy(w) == ShowError(w, "none", "wifi")

\* runWifiScan and queryImprovState begin alike: _connectImprov opens the port
\* and resets the device, for which it needs no stream, and then takes both.
Wake(w, f, pc) == [w EXCEPT !.p.open = TRUE, !.f[f].pc = pc]
Awake(w, f, pc) == [w EXCEPT !.p.lock = f, !.f[f].pc = pc]
CanLock == port.open /\ port.lock = "free"

Scan(w, f) == Wake(Show(w, "wifi_scan"), f, "scanWakes")

\* handleUsbWifiConfig, from the start page or as a retry.
ConfigWifi(w, f) ==
    IF w.c.running THEN Busy(w)
    ELSE LET b == [Begun(w, f, "config") EXCEPT !.c.running = TRUE]
         IN  IF w.c.hasPort THEN Scan(b, f) ELSE At(Show(b, "connecting"), f, "choosing")

\* handleWifiScan: a second scan supersedes whatever else goes on.
HandleWifiScan ==
    /\ ctrl.screen.step = "wifi_provision" /\ ctrl.hasPort
    /\ \E f \in FreeFlows : Becomes(Scan(Begun(ReleaseKept(BumpOpId(W)), f, "rescan"), f))

\* Fault: a second scan does not look whether it was superseded before it keeps the streams.
ScanDoneCarelessly(w, f) ==
    LET r == IF w.f[f].kind = "rescan" THEN w ELSE NotRunning(w)
    IN  IF w.f[f].live THEN Return(Show([r EXCEPT !.c.kept = TRUE], "wifi_provision"), f)
        ELSE Return(r, f)

\* Only a second scan gives its streams back when it has been superseded.
ScanDone(w, f) ==
    LET r == IF w.f[f].kind = "rescan" THEN w ELSE NotRunning(w)
    IN  CASE w.f[f].live -> Return(Show([r EXCEPT !.c.kept = TRUE], "wifi_provision"), f)
          [] ~w.f[f].live /\ w.f[f].kind = "rescan" -> Return(Free(r, f), f)
          [] OTHER -> Return(r, f)

\* What Retry does on the error screen (handleUsbRetry).
RetryOf(w, kind) ==
    IF kind = "flash" /\ w.c.screen.step \in {"connecting", "flashing", "wifi_check"}
    THEN "flash" ELSE "wifi"

\* The catch block of each handler.
Fails(w, f) ==
    LET k == w.f[f].kind
        v == w.f[f].variant
        r == IF k = "rescan" THEN w ELSE NotRunning(w)
    IN  IF ~w.f[f].live THEN Return(r, f)
        ELSE Return(ShowError(IF k = "flash" THEN CloseMine(r) ELSE r, RetryOf(w, k), v), f)

ScanWakes(f) ==
    /\ flow[f].pc = "scanWakes"
    /\ Becomes(IF CanLock THEN Awake(W, f, "scanning") ELSE Fails(W, f))

ScanEnds(f) ==
    /\ flow[f].pc = "scanning"
    /\ Becomes(ScanDone(W, f)) \/ Becomes(Fails(Free(W, f), f))

-----------------------------------------------------------------------------
(* Flashing                                                                *)

\* Up to flashFirmware's connect.  close() is put out of order until it is over;
\* a port that is open already is refused.
BeginFlash(w, f) ==
    LET b == [Show(w, "flashing") EXCEPT !.c.hasPort = TRUE, !.p.stub = TRUE,
                                         !.f[f].orig = w.p.stub]
    IN  IF w.p.open THEN At(b, f, "refused")
        ELSE [At(b, f, "loading") EXCEPT !.p.open = TRUE, !.p.lock = f]

\* handleUsbFlash, in an operation of its own or handed on from the detection.
Flash(w, f, v) ==
    IF w.c.running THEN [Busy(w) EXCEPT !.f[f] = NoFlow]
    ELSE LET b == [Begun(w, f, "flash") EXCEPT !.c.running = TRUE, !.f[f].variant = v]
         IN  IF w.c.hasPort THEN BeginFlash(b, f) ELSE At(Show(b, "connecting"), f, "choosing")

\* flashFirmware's finally.
Disconnect(w, f) == [Free(w, f) EXCEPT !.p.stub = w.f[f].orig]

FlashRefused(f) ==
    /\ flow[f].pc = "refused"
    /\ LET w == NotRunning(Disconnect(W, f))
       IN  Becomes(Return(IF flow[f].live THEN Busy(CloseMine(w)) ELSE w, f))

\* The boot loader answers: the original firmware is asked about (its other
\* question, if one is open, is answered with no), ours is written at once.
LoaderAnswers(f) ==
    /\ flow[f].pc = "loading"
    /\ \/ Becomes(At(Show(W, "flashing"), f, "writing"))
       \/ Becomes(At([W EXCEPT !.c.dialog = f], f, "asking"))

\* The user has confirmed, and the old entry is deleted.
Confirmed(f) ==
    /\ flow[f].pc = "asking" /\ ctrl.dialog = f
    /\ Becomes(At(Show([W EXCEPT !.c.dialog = None], "flashing"), f, "writing"))

\* The user has declined, or another flash has asked.
Declined(f) ==
    /\ flow[f].pc = "asking"
    /\ LET w == NotRunning(Disconnect([W EXCEPT !.c.dialog = IF @ = f THEN None ELSE @], f))
       IN  Becomes(Return(IF flow[f].live THEN ResetUsbState(CloseMine(w)) ELSE w, f))

\* reportProgress, of any flash.
Progress(f) ==
    /\ flow[f].pc = "writing" /\ ctrl.screen.step # "flashing"
    /\ Becomes(Show(W, "flashing"))

FlashFails(f) ==
    /\ flow[f].pc \in {"loading", "writing"}
    /\ Becomes(Fails(Disconnect(W, f), f))

\* Written: an Ethernet device is done, another one is asked for its Wi-Fi.
Written(f) ==
    /\ flow[f].pc = "writing"
    /\ LET w == Disconnect(W, f)
       IN  Becomes(
             CASE ~flow[f].live -> Return(NotRunning(w), f)
               [] flow[f].live /\ flow[f].variant = "ethernet" ->
                    Return(Show(NotRunning([TryClose(w) EXCEPT !.c.hasPort = FALSE]), "complete"), f)
               [] OTHER -> [Wake(Show(w, "wifi_check"), f, "checkWakes") EXCEPT !.c.probe = f])

\* queryImprovState settles: it failed (and cleared nothing but itself), or the device
\* is on the network, whose streams a superseded flash keeps, or it is not.
Settled(w, f) == [w EXCEPT !.c.probe = IF @ = f THEN None ELSE @]

CheckFailed(w, f) ==
    LET s == Settled(Free(w, f), f)
    IN  IF w.f[f].live THEN Scan(s, f) ELSE Return(NotRunning(s), f)

OnNetwork(w, f) ==
    LET s == NotRunning([w EXCEPT !.c.probe = None])
    IN  IF w.f[f].live THEN AddToHa(Free(s, f), f) ELSE Return(s, f)

OffNetwork(w, f) ==
    LET s == [Free(w, f) EXCEPT !.c.probe = None]
    IN  IF w.f[f].live THEN Scan(s, f) ELSE Return(NotRunning(s), f)

CheckWakes(f) ==
    /\ flow[f].pc = "checkWakes"
    /\ Becomes(IF CanLock THEN Awake(W, f, "checking") ELSE CheckFailed(W, f))

CheckEnds(f) ==
    /\ flow[f].pc = "checking"
    /\ Becomes(CheckFailed(W, f)) \/ Becomes(OnNetwork(W, f)) \/ Becomes(OffNetwork(W, f))

-----------------------------------------------------------------------------
(* Choosing a port, and asking the device which model it is                *)

\* handleUsbFlashAuto, up to the browser's chooser.
FlashAuto ==
    /\ ctrl.screen.step = "none"
    /\ \E f \in FreeFlows :
         Becomes(IF ctrl.running THEN Busy(W)
                 ELSE At(Show([Begun(W, f, "auto") EXCEPT !.c.running = TRUE], "connecting"),
                         f, "choosing"))

ConfigWifiFirst ==
    /\ ctrl.screen.step = "none"
    /\ \E f \in FreeFlows : Becomes(ConfigWifi(W, f))

\* handleUsbFlash of the picked variant.
FlashVariant ==
    /\ ctrl.screen.step = "select_variant"
    /\ \E f \in FreeFlows, v \in {"wifi", "ethernet"} : Becomes(Flash(W, f, v))

\* readDeviceModel opens the port and takes its streams, if it can.
Detect(w, f) ==
    LET b == [Show(w, "detecting") EXCEPT !.c.hasPort = TRUE, !.p.open = TRUE,
                  !.f[f].opened = ~w.p.open, !.f[f].pc = "detecting", !.c.probe = f]
    IN  IF w.p.lock = "free" THEN [b EXCEPT !.p.lock = f] ELSE b

\* The user has chosen the port.  Configuring the Wi-Fi keeps it even if it has
\* been superseded.
PortChosen(f) ==
    /\ flow[f].pc = "choosing"
    /\ LET k == flow[f].kind
           w == IF k = "config" THEN [W EXCEPT !.c.hasPort = TRUE] ELSE W
       IN  Becomes(CASE ~flow[f].live -> Return(NotRunning(w), f)
                     [] flow[f].live /\ k = "config" -> Scan(w, f)
                     [] flow[f].live /\ k = "auto" -> Detect(w, f)
                     [] OTHER -> BeginFlash(w, f))

\* The user has dismissed the chooser: back to the start page.  A flash does not say
\* that it is over.
ChooserDismissed(f) ==
    /\ flow[f].pc = "choosing"
    /\ LET w == IF flow[f].kind = "flash" /\ flow[f].live THEN W ELSE NotRunning(W)
       IN  Becomes(Return(IF flow[f].live THEN ResetUsbState(w) ELSE w, f))

ChooserFails(f) == flow[f].pc = "choosing" /\ Becomes(Fails(W, f))

\* The model, or none: a Lite is flashed at once, of a Pro the user is asked more.
Detected(f) ==
    /\ flow[f].pc = "detecting"
    /\ LET freed == [Free(W, f) EXCEPT !.c.probe = None]
           w == NotRunning(IF flow[f].opened THEN TryClose(freed) ELSE freed)
       IN  IF ~flow[f].live THEN Becomes(Return(w, f))
           ELSE \/ Becomes(Return(Show(w, "select_variant"), f))
                \/ port.lock = f /\ Becomes(Flash(w, f, "wifi"))

-----------------------------------------------------------------------------
(* Giving it the Wi-Fi                                                     *)

\* handleWifiProvision: without a port it can only say so, and on streams that
\* somebody else holds it fails without a word.
HandleWifiProvision ==
    /\ ctrl.screen.step = "wifi_provision"
    /\ LET w == ReleaseKept(W)
       IN  IF ~ctrl.hasPort \/ ~port.open THEN Becomes(ShowError(W, "wifi", "wifi"))
           ELSE IF w.p.lock # "free" THEN Becomes(w)
           ELSE \E f \in FreeFlows :
                  Becomes([Show(Begun(w, f, "provision"), "wifi_connecting") EXCEPT
                              !.p.lock = f, !.c.kept = TRUE, !.f[f].pc = "sending"])

ProvisionFails(f) ==
    /\ flow[f].pc \in {"sending", "reading"}
    /\ LET w == ReleaseKept(W)
       IN  Becomes(Return(IF flow[f].live THEN ShowError(w, "wifi", "wifi") ELSE w, f))

CredentialsSent(f) ==
    /\ flow[f].pc = "sending" /\ port.lock = f
    /\ Becomes(IF flow[f].live THEN At(Show(W, "reading_ip"), f, "reading") ELSE Return(W, f))

\* detectIpAddress has an address.
AddressRead(f) ==
    /\ flow[f].pc = "reading" /\ port.lock = f
    /\ Becomes(IF ~flow[f].live THEN Return(W, f)
               ELSE AddToHa([TryClose(Free(W, f)) EXCEPT !.c.hasPort = FALSE], f))

-----------------------------------------------------------------------------
(* The buttons that end something                                          *)

\* handleUsbRetry; not offered for a fatal error.
HandleUsbRetry ==
    /\ ctrl.screen.step = "error" /\ ctrl.screen.retry # "none"
    /\ LET w == ReleaseKept(W)
       IN  \E f \in FreeFlows :
             Becomes(IF ctrl.screen.retry = "flash" THEN Flash(w, f, ctrl.screen.variant)
                     ELSE ConfigWifi(w, f))

\* handleFlasherCancel; not offered while the chooser is open or the device written.
HandleFlasherCancel ==
    /\ ctrl.screen.step \notin {"connecting", "flashing"}
    /\ Becomes(ResetUsbState(NotRunning(W)))

\* Another tab of the panel, or this one again.
SwitchTab == Becomes(ResetUsbState(W))

\* hostDisconnected
LeavePage == Becomes(TearDownSerialPort(W))

Step(f) ==
    \/ HaAnswers(f) \/ Backoff(f) \/ DeviceListed(f) \/ ScanWakes(f) \/ ScanEnds(f)
    \/ FlashRefused(f) \/ LoaderAnswers(f) \/ Confirmed(f) \/ Declined(f) \/ Progress(f)
    \/ FlashFails(f) \/ Written(f) \/ CheckWakes(f) \/ CheckEnds(f) \/ PortChosen(f)
    \/ ChooserDismissed(f) \/ ChooserFails(f) \/ Detected(f) \/ ProvisionFails(f)
    \/ CredentialsSent(f) \/ AddressRead(f)

Click ==
    \/ RetryHaAdd \/ HandleWifiScan \/ FlashAuto \/ ConfigWifiFirst \/ FlashVariant
    \/ HandleWifiProvision \/ HandleUsbRetry \/ HandleFlasherCancel \/ SwitchTab \/ LeavePage

Next == (\E f \in Flows : Step(f)) \/ Click

Spec == Init /\ [][Next]_vars

-----------------------------------------------------------------------------
(* What the flasher owes its user                                          *)

Underway == {f \in Flows : flow[f].pc # "free"}

Working == {"connecting", "detecting", "wifi_check", "wifi_scan", "wifi_connecting", "reading_ip",
            "adding", "wifi_configured"}

\* A screen that says that something is going on is right: an operation that has
\* not been superseded is behind it, or a reset is on its way, however operations are
\* begun, cancelled, retried and left behind.  (Not so for "flashing": the progress of
\* a flash that was left is shown all the same.)
ProgressHasFlow ==
    ctrl.screen.step \in Working => \E f \in Underway : flow[f].live \/ flow[f].waiter

\* Streams are lost, locked by nobody who could release them, only by a first scan or a
\* check that succeeds after it was superseded: every other operation gives them back
\* or hands them on, however it ends.
OnlyScansLoseLocks ==
    [][port'.lock = "lost" /\ port.lock # "lost" =>
         \E f \in Flows : /\ port.lock = f /\ ~flow[f].live
                         /\ flow[f].pc \in {"scanning", "checking"} /\ flow[f].kind # "rescan"]_vars
=============================================================================
