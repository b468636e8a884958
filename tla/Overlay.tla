------------------------------ MODULE Overlay ------------------------------
(***************************************************************************)
(* The life of the in-game panel (overlay.cpp): the hooks InstallOverlay   *)
(* puts on Direct3D, the two backends of ImGui and the textures, which     *)
(* belong to a device, the window procedure, the toggle key and the mask   *)
(* on the mouse buttons the game polls.                                    *)
(*                                                                         *)
(* Threads: InitWorker installs (dllmain.cpp); the game's thread makes and *)
(* resets devices, presents frames (HookEndScene) and handles messages,    *)
(* which Windows may send from inside a Reset.  Detaching the DLL comes    *)
(* between frames: at the exit of the process no other thread is left.     *)
(*                                                                         *)
(* There is one window.  Whatever ImGui draws and every message that only  *)
(* feeds it is left out, as are the hooks on DirectInput.  An assertion of *)
(* a backend (shut down twice, used before Init) ends the process: fault.  *)
(***************************************************************************)
EXTENDS Integers

CONSTANTS Device, NoDevice, Slot   \* Slot: keys that can be rebound
ASSUME OverlayAssumption == NoDevice \notin Device /\ Slot \subseteq 0 .. 3

NoSlot == -1

VARIABLES
  install,     \* InstallOverlay: "none", "armed", "done", "failed", "removed"
  hooks,       \* EndScene and Reset are hooked (g_deviceHooksInstalled)
  dev, ok,     \* the game's device; TestCooperativeLevel() = D3D_OK
  resetting,   \* the game is inside HookReset
  init,        \* g_imguiBackendInit
  dx9,         \* the device ImGui_ImplDX9 was initialised with
  win32,       \* ImGui_ImplWin32 is initialised
  tex,         \* the device the embedded textures belong to
  known,       \* s_knownDev of HookEndScene
  proc,        \* the window's procedure: "game" or "ours"
  target,      \* g_targetHwnd and s_hookedHwnd are set
  visible,     \* g_visible
  masked,      \* g_imguiCapturesMouse
  capture,     \* slot of the key to be rebound (g_captureNextKey and Slot)
  focus, down, \* the window has the focus; the toggle key is held
  wasDown,     \* wasKeyDown of HookEndScene
  shown,       \* history: the last frame was drawn by the panel
  press,       \* history: no frame has acted on this press of the key yet
  awaiting,    \* history: a Reset failed, no full initialisation since
  bare,        \* history: a Reset left one backend up and one down, or was overtaken
  fault        \* what ended the process

backends == <<init, dx9, win32, tex>>
game == <<hooks, dev, ok, resetting>>
input == <<capture, focus, down, press, wasDown>>
window == <<proc, target>>
panel == <<visible, masked, shown>>
history == <<awaiting, bare>>
vars == <<install, game, backends, known, window, panel, input, history, fault>>

Ctx == install = "done"
Running == fault = "none"

Init ==
  /\ install = "none" /\ hooks = FALSE
  /\ dev = NoDevice /\ ok = TRUE /\ resetting = FALSE
  /\ init = FALSE /\ dx9 = NoDevice /\ win32 = FALSE /\ tex = NoDevice
  /\ known = NoDevice /\ proc = "game" /\ target = FALSE
  /\ visible = TRUE /\ masked = FALSE /\ shown = FALSE
  /\ capture = NoSlot /\ focus = TRUE /\ down = FALSE /\ wasDown = FALSE
  /\ press = FALSE /\ awaiting = FALSE /\ bare = FALSE /\ fault = "none"

----------------------------------------------------------------------------
(* InitWorker and the detaching of the DLL.                                *)

\* The hook on Direct3DCreate9 is live long before there is a context.
Install ==
  /\ Running /\ install = "none"
  /\ install' \in {"armed", "failed"}
  /\ UNCHANGED <<game, backends, known, window, panel, input, history, fault>>

\* Enabling all hooks may fail: the one on Direct3DCreate9 stays.
CreateContext ==
  /\ Running /\ install = "armed"
  /\ install' \in {"done", "stranded"}
  /\ UNCHANGED <<game, backends, known, window, panel, input, history, fault>>

UninstallOverlay ==
  /\ Running /\ Ctx /\ ~resetting
  /\ IF init /\ (dx9 = NoDevice \/ ~win32)
     THEN fault' = "no backend" /\ UNCHANGED <<install, hooks, proc, init, dx9, win32>>
     ELSE /\ install' = "removed" /\ hooks' = FALSE /\ proc' = "game"
          /\ init' = FALSE
          /\ IF init THEN dx9' = NoDevice /\ win32' = FALSE ELSE UNCHANGED <<dx9, win32>>
          /\ fault' = fault
  /\ UNCHANGED <<dev, ok, resetting, tex, known, target, panel, input, history>>

----------------------------------------------------------------------------
(* The game's device.                                                      *)

\* Device methods are shared, so the first device made through the hooks arms
\* EndScene and Reset for good.  No object that is still referenced is reused.
CreateDevice(d) ==
  /\ Running /\ ~resetting /\ d \notin {dev, dx9, tex}
  /\ dev' = d /\ ok' = TRUE
  /\ hooks' = (hooks \/ install \in {"armed", "done", "stranded"})
  /\ UNCHANGED <<install, resetting, backends, known, window, panel, input, history,
                 fault>>

LoseDevice ==
  /\ Running /\ dev # NoDevice /\ ok
  /\ ok' = FALSE
  /\ UNCHANGED <<install, hooks, dev, resetting, backends, known, window, panel,
                 input, history, fault>>

----------------------------------------------------------------------------
(* HookEndScene.                                                           *)

Presenting == Running /\ hooks /\ dev # NoDevice /\ ~resetting

\* Mutant: the Win32 backend is forgotten.
ShutDownRenderer(textures) ==
  IF dx9 = NoDevice \/ ~win32
  THEN fault' = "no backend" /\ UNCHANGED backends
  ELSE /\ dx9' = NoDevice /\ win32' = win32 /\ init' = FALSE
       /\ tex' = textures /\ fault' = fault

\* Both backends are shut down; a second time is an assertion.
ShutDown(textures) ==
  IF dx9 = NoDevice \/ ~win32
  THEN fault' = "no backend" /\ UNCHANGED backends
  ELSE /\ dx9' = NoDevice /\ win32' = FALSE /\ init' = FALSE
       /\ tex' = textures /\ fault' = fault

\* The device is lost: everything is released, the mask stays as it was.
EndSceneLost ==
  /\ Presenting /\ ~ok
  /\ IF Ctx /\ init THEN ShutDown(NoDevice) ELSE UNCHANGED <<backends, fault>>
  /\ shown' = FALSE
  /\ UNCHANGED <<install, game, known, window, visible, masked, input, history>>

\* Mutant: the key is remembered only while the window has the focus.
ToggleFocused ==
  LET pressed == focus /\ target /\ down IN
  /\ visible' = (visible # (pressed /\ ~wasDown))
  /\ wasDown' = pressed
  /\ press' = FALSE

\* The effect is gated on focus, the key's state is followed regardless.
Toggle ==
  /\ visible' = (visible # (focus /\ target /\ down /\ ~wasDown))
  /\ wasDown' = down
  /\ press' = FALSE

\* Another device than the one known takes the backends along.
Changed == known \notin {NoDevice, dev}

\* Mutant: a change of device goes unnoticed.
KeptAlways == init

\* The backends that survive the detection of a change.
Kept == init /\ ~Changed

\* Mutant: the mask is only ever sampled.
DrawKeepsMask(d, textures) ==
  IF visible'
  THEN /\ shown' = (d = dev /\ textures \in {dev, NoDevice}) /\ masked' \in BOOLEAN
       /\ capture' \in {capture} \union Slot
  ELSE shown' = FALSE /\ UNCHANGED <<masked, capture>>

\* A frame of the panel, in which the user may ask to rebind a key.
Draw(d, textures) ==
  IF visible'
  THEN /\ shown' = (d = dev /\ textures \in {dev, NoDevice}) /\ masked' \in BOOLEAN
       /\ capture' \in {capture} \union Slot
  ELSE shown' = FALSE /\ masked' = FALSE /\ UNCHANGED capture

\* Mutant: the backends are initialised for the first frame only.
EndSceneInitOnce ==
  /\ Presenting /\ ok /\ ~Kept
  /\ known' = dev /\ Toggle
  /\ IF target \/ ~Ctx
     THEN /\ init' = FALSE /\ dx9' = NoDevice /\ win32' = FALSE
          /\ shown' = FALSE /\ masked' = FALSE
          /\ UNCHANGED <<tex, window, capture, awaiting>>
     ELSE /\ dx9' = dev /\ win32' = TRUE /\ tex' = dev /\ init' = TRUE
          /\ target' = TRUE /\ proc' = "ours" /\ Draw(dev, dev) /\ awaiting' = FALSE
  /\ UNCHANGED <<install, game, focus, down, bare, fault>>

\* The first frame on a device, and every first frame after a loss.
EndSceneInit ==
  /\ Presenting /\ ok /\ ~Kept
  /\ known' = dev /\ Toggle
  /\ IF ~Ctx
     THEN fault' = "no context" /\ UNCHANGED <<backends, window, masked, shown, capture, history>>
     ELSE IF init /\ (dx9 = NoDevice \/ ~win32)
     THEN fault' = "no backend" /\ UNCHANGED <<backends, window, masked, shown, capture, history>>
     ELSE /\ dx9' = dev /\ win32' = TRUE /\ tex' = dev /\ init' = TRUE
          /\ target' = TRUE /\ proc' = IF target THEN proc ELSE "ours"
          /\ Draw(dev, dev)
          /\ awaiting' = FALSE
          /\ UNCHANGED <<bare, fault>>
  /\ UNCHANGED <<install, game, focus, down>>

EndSceneDraw ==
  /\ Presenting /\ ok /\ Kept
  /\ known' = dev /\ Toggle
  /\ IF visible' /\ (dx9 = NoDevice \/ ~win32)
     THEN fault' = "no backend" /\ UNCHANGED <<masked, shown, capture>>
     ELSE /\ Draw(dx9, tex)
          /\ fault' = IF visible' /\ dx9 # dev THEN "dead device" ELSE fault
  /\ UNCHANGED <<install, game, backends, window, focus, down, history>>

----------------------------------------------------------------------------
(* HookReset, in which Windows may call HookedWndProc.                     *)

ResetBegin ==
  /\ Presenting
  /\ resetting' = TRUE
  /\ IF Ctx /\ init
     THEN IF dx9 = NoDevice THEN fault' = "no backend" /\ dx9' = dx9
          ELSE dx9' = NoDevice /\ fault' = fault
     ELSE UNCHANGED <<dx9, fault>>
  /\ UNCHANGED <<install, hooks, dev, ok, init, win32, tex, known, window, panel,
                 input, history>>

\* g_imguiBackendInit becomes true although only one backend is up.
ResetSucceeds ==
  /\ Running /\ resetting
  /\ resetting' = FALSE /\ ok' = TRUE
  /\ IF Ctx
     THEN /\ dx9' = dev /\ init' = TRUE
          /\ proc' = IF target THEN "ours" ELSE proc
          /\ bare' = (bare \/ ~win32)
     ELSE UNCHANGED <<dx9, init, proc, bare>>
  /\ UNCHANGED <<install, hooks, dev, win32, tex, known, target, panel, input,
                 awaiting, fault>>

ResetFails ==
  /\ Running /\ resetting
  /\ resetting' = FALSE /\ ok' = FALSE
  /\ IF ~Ctx THEN UNCHANGED <<backends, awaiting, fault>>
     ELSE IF init /\ ~win32 THEN fault' = "no backend" /\ UNCHANGED <<backends, awaiting>>
     ELSE /\ win32' = (win32 /\ ~init) /\ init' = FALSE
          /\ tex' = NoDevice /\ awaiting' = TRUE
          /\ UNCHANGED <<dx9, fault>>
  /\ UNCHANGED <<install, hooks, dev, known, window, panel, input, bare>>

----------------------------------------------------------------------------
(* HookedWndProc: messages of the window, and the user.                    *)

\* Sizes, styles, display changes and Alt+Enter, also from inside a Reset.
DisplayTransition ==
  /\ Running /\ proc = "ours" /\ init
  /\ ShutDown(NoDevice)
  /\ bare' = (bare \/ resetting)
  /\ UNCHANGED <<install, game, known, window, panel, input, awaiting>>

\* A key or a button is bound to the slot asked for; Escape cancels.
CaptureKey ==
  /\ Running /\ proc = "ours" /\ capture # NoSlot
  /\ capture' = NoSlot
  /\ UNCHANGED <<install, game, backends, known, window, panel, focus, down, press,
                 wasDown, history, fault>>

\* Another module puts its own procedure on the window.
Subclass ==
  /\ Running /\ proc = "ours"
  /\ proc' = "game"
  /\ UNCHANGED <<install, game, backends, known, target, panel, input, history, fault>>

\* The toggle key goes down or up; nothing is said of who is meant.
ToggleKey ==
  /\ Running
  /\ down' = ~down /\ press' = ~down
  /\ UNCHANGED <<install, game, backends, known, window, panel, capture, focus,
                 wasDown, history, fault>>

SwitchWindow ==
  /\ Running
  /\ focus' = ~focus
  /\ UNCHANGED <<install, game, backends, known, window, panel, capture, down, press,
                 wasDown, history, fault>>

EndScene == EndSceneLost \/ EndSceneInit \/ EndSceneDraw

Next ==
  \/ Install \/ CreateContext \/ UninstallOverlay
  \/ \E d \in Device : CreateDevice(d)
  \/ LoseDevice
  \/ EndSceneLost \/ EndSceneInit \/ EndSceneDraw
  \/ ResetBegin \/ ResetSucceeds \/ ResetFails
  \/ DisplayTransition \/ CaptureKey \/ Subclass
  \/ ToggleKey \/ SwitchWindow

Spec == Init /\ [][Next]_vars

\* The game goes on presenting frames.
FairSpec == Spec /\ WF_vars(EndScene)

----------------------------------------------------------------------------
(* Properties.                                                             *)

\* Types; nothing is up before there is a context or while the flag says so,
\* and the panel's own procedure implies a window.
TypeOK ==
  /\ install \in {"none", "armed", "done", "failed", "stranded", "removed"}
  /\ dev \in Device \union {NoDevice} /\ dx9 \in Device \union {NoDevice}
  /\ tex \in Device \union {NoDevice} /\ known \in Device \union {NoDevice}
  /\ hooks \in BOOLEAN /\ ok \in BOOLEAN /\ resetting \in BOOLEAN
  /\ init \in BOOLEAN /\ win32 \in BOOLEAN /\ target \in BOOLEAN
  /\ proc \in {"game", "ours"} /\ capture \in Slot \union {NoSlot}
  /\ visible \in BOOLEAN /\ masked \in BOOLEAN /\ shown \in BOOLEAN
  /\ focus \in BOOLEAN /\ down \in BOOLEAN /\ wasDown \in BOOLEAN
  /\ press \in BOOLEAN /\ awaiting \in BOOLEAN /\ bare \in BOOLEAN
  /\ fault \in {"none", "no context", "no backend", "dead device"}
  /\ init => Ctx
  /\ Running /\ ~init => dx9 = NoDevice /\ ~win32
  /\ proc = "ours" => target

\* What may end the process.  A backend is used while it is down only after a
\* Reset that succeeded without the Win32 backend, or a message handled inside
\* a Reset; a frame meets no context only while InstallOverlay runs or after it
\* gave up with a hook enabled; and nothing is ever drawn on a device that is
\* gone, whatever the order of losses, resets and replacements.
FaultsExplained ==
  /\ fault = "no backend" => bare
  /\ fault = "no context" => install \in {"armed", "stranded"}
  /\ fault # "dead device"

\* The game's polled mouse buttons are never masked while the panel is hidden.
MaskNeedsPanel == masked /\ Running => visible

\* A press of the toggle key is acted on by at most one frame, and one made
\* while another window had the focus by none once a frame has seen it.
OneTogglePerPress == [][visible' # visible => press /\ focus]_vars

\* A device that stays usable gets the panel back for good.
Steady ==
  Running /\ Ctx /\ hooks /\ dev # NoDevice /\ ok /\ ~resetting /\ visible

PanelReturns == <>[]Steady => <>[](Running => shown)

\* "HookEndScene will perform a clean, full reinitialization once the device is
\* recovered": no frame uses a backend that is down after a Reset that failed.
ReinitialisesAfterFailedReset ==
  [][EndScene /\ awaiting => fault' # "no backend"]_vars
=============================================================================
