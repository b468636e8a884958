--------------------------- MODULE Overlay_proofs ---------------------------
(***************************************************************************)
(* Proofs about module Overlay: types, what may end the process, the mask  *)
(* on the mouse and the toggle key, for any devices and any keys that can  *)
(* be rebound.                                                             *)
(***************************************************************************)
EXTENDS Overlay, TLAPS

\* What g_imguiBackendInit promises while nothing has gone wrong: the Win32
\* backend is up, and outside a Reset the Direct3D one as well.  The textures
\* keep the device known by HookEndScene from being reused, so a backend never
\* meets another device under the same address.
Backends ==
  /\ Running /\ init /\ ~bare => win32 /\ (resetting \/ dx9 # NoDevice)
  /\ Running /\ resetting => dev # NoDevice /\ dx9 = NoDevice
  /\ Running /\ win32 => known # NoDevice /\ tex = known
  /\ Running /\ win32 /\ dx9 # NoDevice /\ known = dev => dx9 = dev

\* EndScene is hooked only between Install and UninstallOverlay.
HooksArmed == hooks => install \in {"armed", "done", "stranded"}

\* A key that has gone down since the last frame is a press not yet acted on.
PressPending == down /\ ~wasDown => press

IInv ==
  TypeOK /\ Backends /\ FaultsExplained /\ MaskNeedsPanel /\ HooksArmed /\ PressPending

-----------------------------------------------------------------------------

\* The inductive invariant holds when the DLL is loaded.
LEMMA InitInv == Init => IInv
  <1> SUFFICES ASSUME Init PROVE IInv
    OBVIOUS
  <1> USE OverlayAssumption DEF Init
  <1>1. TypeOK
    BY DEF TypeOK, NoSlot, Running, Ctx
  <1>2. Backends /\ FaultsExplained /\ MaskNeedsPanel /\ HooksArmed /\ PressPending
    BY DEF Backends, FaultsExplained, MaskNeedsPanel, HooksArmed, PressPending, Running
  <1> QED
    BY <1>1, <1>2 DEF IInv

\* InstallOverlay up to the first live hook.
LEMMA InstallInv == ASSUME IInv, Install PROVE IInv'
  <1> USE OverlayAssumption
      DEF IInv, Install, Running, Ctx, backends, game, input, window, panel, history
  <1>1. TypeOK'
    BY DEF TypeOK, NoSlot
  <1>2. Backends'
    BY DEF TypeOK, Backends
  <1>3. FaultsExplained'
    BY DEF TypeOK, Backends, FaultsExplained
  <1>4. MaskNeedsPanel' /\ HooksArmed' /\ PressPending'
    BY DEF TypeOK, MaskNeedsPanel, HooksArmed, PressPending
  <1> QED
    BY <1>1, <1>2, <1>3, <1>4 DEF IInv

\* The rest of InstallOverlay.
LEMMA CreateContextInv == ASSUME IInv, CreateContext PROVE IInv'
  <1> USE OverlayAssumption
      DEF IInv, CreateContext, Running, Ctx, backends, game, input, window, panel, history
  <1>1. TypeOK'
    BY DEF TypeOK, NoSlot
  <1>2. Backends'
    BY DEF TypeOK, Backends
  <1>3. FaultsExplained'
    BY DEF TypeOK, Backends, FaultsExplained
  <1>4. MaskNeedsPanel' /\ HooksArmed' /\ PressPending'
    BY DEF TypeOK, MaskNeedsPanel, HooksArmed, PressPending
  <1> QED
    BY <1>1, <1>2, <1>3, <1>4 DEF IInv

\* Detaching the DLL.
LEMMA UninstallOverlayInv == ASSUME IInv, UninstallOverlay PROVE IInv'
  <1> USE OverlayAssumption
      DEF IInv, UninstallOverlay, Running, Ctx, backends, game, input, window, panel,
          history
  <1>1. TypeOK'
    <2>1. /\ install' \in {"none", "armed", "done", "failed", "stranded", "removed"}
          /\ dev' \in Device \union {NoDevice} /\ dx9' \in Device \union {NoDevice}
          /\ tex' \in Device \union {NoDevice} /\ known' \in Device \union {NoDevice}
          /\ proc' \in {"game", "ours"} /\ capture' \in Slot \union {NoSlot}
          /\ fault' \in {"none", "no context", "no backend", "dead device"}
      BY DEF TypeOK
    <2>2. /\ hooks' \in BOOLEAN /\ ok' \in BOOLEAN /\ resetting' \in BOOLEAN
          /\ focus' \in BOOLEAN /\ down' \in BOOLEAN
      BY DEF TypeOK
    <2>3. /\ init' \in BOOLEAN /\ win32' \in BOOLEAN /\ target' \in BOOLEAN
      BY DEF TypeOK
    <2>4. /\ visible' \in BOOLEAN /\ masked' \in BOOLEAN /\ shown' \in BOOLEAN
      BY DEF TypeOK
    <2>5. /\ wasDown' \in BOOLEAN /\ press' \in BOOLEAN
          /\ awaiting' \in BOOLEAN /\ bare' \in BOOLEAN
      BY DEF TypeOK
    <2>6. /\ init' => Ctx'
          /\ Running' /\ ~init' => dx9' = NoDevice /\ ~win32'
          /\ proc' = "ours" => target'
      BY DEF TypeOK, Backends
    <2> QED
      BY <2>1, <2>2, <2>3, <2>4, <2>5, <2>6 DEF TypeOK
  <1>2. Backends'
    BY DEF TypeOK, Backends
  <1>3. FaultsExplained'
    BY DEF TypeOK, Backends, FaultsExplained
  <1>4. MaskNeedsPanel' /\ HooksArmed' /\ PressPending'
    BY DEF TypeOK, MaskNeedsPanel, HooksArmed, PressPending
  <1> QED
    BY <1>1, <1>2, <1>3, <1>4 DEF IInv

\* The game makes a device.
LEMMA CreateDeviceInv == ASSUME IInv, NEW d \in Device, CreateDevice(d) PROVE IInv'
  <1> USE OverlayAssumption
      DEF IInv, CreateDevice, Running, Ctx, backends, game, input, window, panel, history
  <1>1. TypeOK'
    BY DEF TypeOK, NoSlot
  <1>2. Backends'
    BY DEF TypeOK, Backends
  <1>3. FaultsExplained'
    BY DEF TypeOK, Backends, FaultsExplained
  <1>4. MaskNeedsPanel' /\ HooksArmed' /\ PressPending'
    BY DEF TypeOK, MaskNeedsPanel, HooksArmed, PressPending
  <1> QED
    BY <1>1, <1>2, <1>3, <1>4 DEF IInv

\* The device is lost.
LEMMA LoseDeviceInv == ASSUME IInv, LoseDevice PROVE IInv'
  <1> USE OverlayAssumption
      DEF IInv, LoseDevice, Running, Ctx, backends, game, input, window, panel, history
  <1>1. TypeOK'
    <2>1. /\ install' \in {"none", "armed", "done", "failed", "stranded", "removed"}
          /\ dev' \in Device \union {NoDevice} /\ dx9' \in Device \union {NoDevice}
          /\ tex' \in Device \union {NoDevice} /\ known' \in Device \union {NoDevice}
          /\ proc' \in {"game", "ours"} /\ capture' \in Slot \union {NoSlot}
          /\ fault' \in {"none", "no context", "no backend", "dead device"}
      BY DEF TypeOK
    <2>2. /\ hooks' \in BOOLEAN /\ ok' \in BOOLEAN /\ resetting' \in BOOLEAN
          /\ focus' \in BOOLEAN /\ down' \in BOOLEAN
      BY DEF TypeOK
    <2>3. /\ init' \in BOOLEAN /\ win32' \in BOOLEAN /\ target' \in BOOLEAN
      BY DEF TypeOK
    <2>4. /\ visible' \in BOOLEAN /\ masked' \in BOOLEAN /\ shown' \in BOOLEAN
      BY DEF TypeOK
    <2>5. /\ wasDown' \in BOOLEAN /\ press' \in BOOLEAN
          /\ awaiting' \in BOOLEAN /\ bare' \in BOOLEAN
      BY DEF TypeOK
    <2>6. /\ init' => Ctx'
          /\ Running' /\ ~init' => dx9' = NoDevice /\ ~win32'
          /\ proc' = "ours" => target'
      BY DEF TypeOK, Backends
    <2> QED
      BY <2>1, <2>2, <2>3, <2>4, <2>5, <2>6 DEF TypeOK
  <1>2. Backends'
    BY DEF TypeOK, Backends
  <1>3. FaultsExplained'
    BY DEF TypeOK, Backends, FaultsExplained
  <1>4. MaskNeedsPanel' /\ HooksArmed' /\ PressPending'
    BY DEF TypeOK, MaskNeedsPanel, HooksArmed, PressPending
  <1> QED
    BY <1>1, <1>2, <1>3, <1>4 DEF IInv

\* A frame on a lost device releases what there is.
LEMMA EndSceneLostInv == ASSUME IInv, EndSceneLost PROVE IInv'
  <1> USE OverlayAssumption
      DEF IInv, EndSceneLost, Presenting, ShutDown, Running, Ctx, backends, game,
          input, window, panel, history
  <1>1. TypeOK'
    <2>1. /\ install' \in {"none", "armed", "done", "failed", "stranded", "removed"}
          /\ dev' \in Device \union {NoDevice} /\ dx9' \in Device \union {NoDevice}
          /\ tex' \in Device \union {NoDevice} /\ known' \in Device \union {NoDevice}
          /\ proc' \in {"game", "ours"} /\ capture' \in Slot \union {NoSlot}
          /\ fault' \in {"none", "no context", "no backend", "dead device"}
      BY DEF TypeOK
    <2>2. /\ hooks' \in BOOLEAN /\ ok' \in BOOLEAN /\ resetting' \in BOOLEAN
          /\ focus' \in BOOLEAN /\ down' \in BOOLEAN
      BY DEF TypeOK
    <2>3. /\ init' \in BOOLEAN /\ win32' \in BOOLEAN /\ target' \in BOOLEAN
      BY DEF TypeOK
    <2>4. /\ visible' \in BOOLEAN /\ masked' \in BOOLEAN /\ shown' \in BOOLEAN
      BY DEF TypeOK
    <2>5. /\ wasDown' \in BOOLEAN /\ press' \in BOOLEAN
          /\ awaiting' \in BOOLEAN /\ bare' \in BOOLEAN
      BY DEF TypeOK
    <2>6. /\ init' => Ctx'
          /\ Running' /\ ~init' => dx9' = NoDevice /\ ~win32'
          /\ proc' = "ours" => target'
      BY DEF TypeOK, Backends
    <2> QED
      BY <2>1, <2>2, <2>3, <2>4, <2>5, <2>6 DEF TypeOK
  <1>2. Backends'
    BY DEF TypeOK, Backends
  <1>3. FaultsExplained'
    BY DEF TypeOK, Backends, FaultsExplained
  <1>4. MaskNeedsPanel' /\ HooksArmed' /\ PressPending'
    BY DEF TypeOK, MaskNeedsPanel, HooksArmed, PressPending
  <1> QED
    BY <1>1, <1>2, <1>3, <1>4 DEF IInv

\* A frame that initialises the backends.
LEMMA EndSceneInitInv == ASSUME IInv, EndSceneInit PROVE IInv'
  <1> USE OverlayAssumption
      DEF IInv, EndSceneInit, Presenting, Kept, Changed, Toggle, Draw, Running, Ctx,
          backends, game, input, window, panel, history
  <1>1. TypeOK'
    <2>1. /\ install' \in {"none", "armed", "done", "failed", "stranded", "removed"}
          /\ dev' \in Device \union {NoDevice} /\ dx9' \in Device \union {NoDevice}
          /\ tex' \in Device \union {NoDevice} /\ known' \in Device \union {NoDevice}
          /\ proc' \in {"game", "ours"} /\ capture' \in Slot \union {NoSlot}
          /\ fault' \in {"none", "no context", "no backend", "dead device"}
      BY DEF TypeOK
    <2>2. /\ hooks' \in BOOLEAN /\ ok' \in BOOLEAN /\ resetting' \in BOOLEAN
          /\ focus' \in BOOLEAN /\ down' \in BOOLEAN
      BY DEF TypeOK
    <2>3. /\ init' \in BOOLEAN /\ win32' \in BOOLEAN /\ target' \in BOOLEAN
      BY DEF TypeOK
    <2>4. /\ visible' \in BOOLEAN /\ masked' \in BOOLEAN /\ shown' \in BOOLEAN
      BY DEF TypeOK
    <2>5. /\ wasDown' \in BOOLEAN /\ press' \in BOOLEAN
          /\ awaiting' \in BOOLEAN /\ bare' \in BOOLEAN
      BY DEF TypeOK
    <2>6. /\ init' => Ctx'
          /\ Running' /\ ~init' => dx9' = NoDevice /\ ~win32'
          /\ proc' = "ours" => target'
      BY DEF TypeOK, Backends
    <2> QED
      BY <2>1, <2>2, <2>3, <2>4, <2>5, <2>6 DEF TypeOK
  <1>2. Backends'
    BY DEF TypeOK, Backends
  <1>3. FaultsExplained'
    <2>1. ~resetting /\ fault = "none" /\ hooks /\ UNCHANGED <<install, bare>>
      BY DEF TypeOK
    <2>2. CASE ~Ctx
      <3>1. fault' = "no context"
        BY <2>2
      <3>2. install \in {"armed", "stranded"}
        BY <2>1, <2>2 DEF HooksArmed
      <3> QED
        BY <2>1, <3>1, <3>2 DEF FaultsExplained
    <2>3. CASE Ctx /\ init /\ (dx9 = NoDevice \/ ~win32)
      <3>1. bare' /\ fault' = "no backend"
        BY <2>1, <2>3 DEF Backends
      <3> QED
        BY <3>1 DEF FaultsExplained
    <2>4. CASE Ctx /\ ~(init /\ (dx9 = NoDevice \/ ~win32))
      <3>1. fault' = "none"
        BY <2>1, <2>4
      <3> QED
        BY <3>1 DEF FaultsExplained
    <2> QED
      BY <2>2, <2>3, <2>4
  <1>4. MaskNeedsPanel' /\ HooksArmed' /\ PressPending'
    BY DEF TypeOK, MaskNeedsPanel, HooksArmed, PressPending
  <1> QED
    BY <1>1, <1>2, <1>3, <1>4 DEF IInv

\* A frame that only draws.
LEMMA EndSceneDrawInv == ASSUME IInv, EndSceneDraw PROVE IInv'
  <1> USE OverlayAssumption
      DEF IInv, EndSceneDraw, Presenting, Kept, Changed, Toggle, Draw, Running, Ctx,
          backends, game, input, window, panel, history
  <1>1. TypeOK'
    <2>1. /\ install' \in {"none", "armed", "done", "failed", "stranded", "removed"}
          /\ dev' \in Device \union {NoDevice} /\ dx9' \in Device \union {NoDevice}
          /\ tex' \in Device \union {NoDevice} /\ known' \in Device \union {NoDevice}
          /\ proc' \in {"game", "ours"} /\ capture' \in Slot \union {NoSlot}
          /\ fault' \in {"none", "no context", "no backend", "dead device"}
      BY DEF TypeOK
    <2>2. /\ hooks' \in BOOLEAN /\ ok' \in BOOLEAN /\ resetting' \in BOOLEAN
          /\ focus' \in BOOLEAN /\ down' \in BOOLEAN
      BY DEF TypeOK
    <2>3. /\ init' \in BOOLEAN /\ win32' \in BOOLEAN /\ target' \in BOOLEAN
      BY DEF TypeOK
    <2>4. /\ visible' \in BOOLEAN /\ masked' \in BOOLEAN /\ shown' \in BOOLEAN
      BY DEF TypeOK
    <2>5. /\ wasDown' \in BOOLEAN /\ press' \in BOOLEAN
          /\ awaiting' \in BOOLEAN /\ bare' \in BOOLEAN
      BY DEF TypeOK
    <2>6. /\ init' => Ctx'
          /\ Running' /\ ~init' => dx9' = NoDevice /\ ~win32'
          /\ proc' = "ours" => target'
      BY DEF TypeOK, Backends
    <2> QED
      BY <2>1, <2>2, <2>3, <2>4, <2>5, <2>6 DEF TypeOK
  <1>2. Backends'
    BY DEF TypeOK, Backends
  <1>3. FaultsExplained'
    <2>1. init /\ ~resetting /\ fault = "none" /\ dev # NoDevice
          /\ UNCHANGED <<install, bare, dx9, win32, dev>>
      OBVIOUS
    <2>2. CASE dx9 = NoDevice \/ ~win32
      <3>1. bare'
        <4>1. bare = TRUE
          BY <2>1, <2>2 DEF Backends, TypeOK
        <4>2. bare' = bare
          BY <2>1
        <4> QED
          BY <4>1, <4>2
      <3>2. fault' \in {"none", "no backend"}
        BY <2>1, <2>2
      <3> QED
        BY <3>1, <3>2 DEF FaultsExplained
    <2>3. CASE dx9 # NoDevice /\ win32
      <3>1. known = dev
        BY <2>1, <2>3 DEF Backends
      <3>2. dx9 = dev
        BY <2>1, <2>3, <3>1 DEF Backends
      <3>3. fault' = "none"
        BY <2>1, <2>3, <3>2
      <3> QED
        BY <3>3 DEF FaultsExplained
    <2> QED
      BY <2>2, <2>3 DEF TypeOK
  <1>4. MaskNeedsPanel' /\ HooksArmed' /\ PressPending'
    BY DEF TypeOK, MaskNeedsPanel, HooksArmed, PressPending
  <1> QED
    BY <1>1, <1>2, <1>3, <1>4 DEF IInv

\* HookReset before the device is reset.
LEMMA ResetBeginInv == ASSUME IInv, ResetBegin PROVE IInv'
  <1> USE OverlayAssumption
      DEF IInv, ResetBegin, Presenting, Running, Ctx, backends, game, input, window,
          panel, history
  <1>1. TypeOK'
    <2>1. /\ install' \in {"none", "armed", "done", "failed", "stranded", "removed"}
          /\ dev' \in Device \union {NoDevice} /\ dx9' \in Device \union {NoDevice}
          /\ tex' \in Device \union {NoDevice} /\ known' \in Device \union {NoDevice}
          /\ proc' \in {"game", "ours"} /\ capture' \in Slot \union {NoSlot}
          /\ fault' \in {"none", "no context", "no backend", "dead device"}
      BY DEF TypeOK
    <2>2. /\ hooks' \in BOOLEAN /\ ok' \in BOOLEAN /\ resetting' \in BOOLEAN
          /\ focus' \in BOOLEAN /\ down' \in BOOLEAN
      BY DEF TypeOK
    <2>3. /\ init' \in BOOLEAN /\ win32' \in BOOLEAN /\ target' \in BOOLEAN
      BY DEF TypeOK
    <2>4. /\ visible' \in BOOLEAN /\ masked' \in BOOLEAN /\ shown' \in BOOLEAN
      BY DEF TypeOK
    <2>5. /\ wasDown' \in BOOLEAN /\ press' \in BOOLEAN
          /\ awaiting' \in BOOLEAN /\ bare' \in BOOLEAN
      BY DEF TypeOK
    <2>6. /\ init' => Ctx'
          /\ Running' /\ ~init' => dx9' = NoDevice /\ ~win32'
          /\ proc' = "ours" => target'
      BY DEF TypeOK, Backends
    <2> QED
      BY <2>1, <2>2, <2>3, <2>4, <2>5, <2>6 DEF TypeOK
  <1>2. Backends'
    BY DEF TypeOK, Backends
  <1>3. FaultsExplained'
    BY DEF TypeOK, Backends, FaultsExplained
  <1>4. MaskNeedsPanel' /\ HooksArmed' /\ PressPending'
    BY DEF TypeOK, MaskNeedsPanel, HooksArmed, PressPending
  <1> QED
    BY <1>1, <1>2, <1>3, <1>4 DEF IInv

\* HookReset after a reset that worked.
LEMMA ResetSucceedsInv == ASSUME IInv, ResetSucceeds PROVE IInv'
  <1> USE OverlayAssumption
      DEF IInv, ResetSucceeds, Running, Ctx, backends, game, input, window, panel, history
  <1>1. TypeOK'
    <2>1. /\ install' \in {"none", "armed", "done", "failed", "stranded", "removed"}
          /\ dev' \in Device \union {NoDevice} /\ dx9' \in Device \union {NoDevice}
          /\ tex' \in Device \union {NoDevice} /\ known' \in Device \union {NoDevice}
          /\ proc' \in {"game", "ours"} /\ capture' \in Slot \union {NoSlot}
          /\ fault' \in {"none", "no context", "no backend", "dead device"}
      BY DEF TypeOK
    <2>2. /\ hooks' \in BOOLEAN /\ ok' \in BOOLEAN /\ resetting' \in BOOLEAN
          /\ focus' \in BOOLEAN /\ down' \in BOOLEAN
      BY DEF TypeOK
    <2>3. /\ init' \in BOOLEAN /\ win32' \in BOOLEAN /\ target' \in BOOLEAN
      BY DEF TypeOK
    <2>4. /\ visible' \in BOOLEAN /\ masked' \in BOOLEAN /\ shown' \in BOOLEAN
      BY DEF TypeOK
    <2>5. /\ wasDown' \in BOOLEAN /\ press' \in BOOLEAN
          /\ awaiting' \in BOOLEAN /\ bare' \in BOOLEAN
      BY DEF TypeOK
    <2>6. /\ init' => Ctx'
          /\ Running' /\ ~init' => dx9' = NoDevice /\ ~win32'
          /\ proc' = "ours" => target'
      BY DEF TypeOK, Backends
    <2> QED
      BY <2>1, <2>2, <2>3, <2>4, <2>5, <2>6 DEF TypeOK
  <1>2. Backends'
    BY DEF TypeOK, Backends
  <1>3. FaultsExplained'
    BY DEF TypeOK, Backends, FaultsExplained
  <1>4. MaskNeedsPanel' /\ HooksArmed' /\ PressPending'
    BY DEF TypeOK, MaskNeedsPanel, HooksArmed, PressPending
  <1> QED
    BY <1>1, <1>2, <1>3, <1>4 DEF IInv

\* HookReset after one that did not.
LEMMA ResetFailsInv == ASSUME IInv, ResetFails PROVE IInv'
  <1> USE OverlayAssumption
      DEF IInv, ResetFails, Running, Ctx, backends, game, input, window, panel, history
  <1>1. TypeOK'
    <2>1. /\ install' \in {"none", "armed", "done", "failed", "stranded", "removed"}
          /\ dev' \in Device \union {NoDevice} /\ dx9' \in Device \union {NoDevice}
          /\ tex' \in Device \union {NoDevice} /\ known' \in Device \union {NoDevice}
          /\ proc' \in {"game", "ours"} /\ capture' \in Slot \union {NoSlot}
          /\ fault' \in {"none", "no context", "no backend", "dead device"}
      BY DEF TypeOK
    <2>2. /\ hooks' \in BOOLEAN /\ ok' \in BOOLEAN /\ resetting' \in BOOLEAN
          /\ focus' \in BOOLEAN /\ down' \in BOOLEAN
      BY DEF TypeOK
    <2>3. /\ init' \in BOOLEAN /\ win32' \in BOOLEAN /\ target' \in BOOLEAN
      BY DEF TypeOK
    <2>4. /\ visible' \in BOOLEAN /\ masked' \in BOOLEAN /\ shown' \in BOOLEAN
      BY DEF TypeOK
    <2>5. /\ wasDown' \in BOOLEAN /\ press' \in BOOLEAN
          /\ awaiting' \in BOOLEAN /\ bare' \in BOOLEAN
      BY DEF TypeOK
    <2>6. /\ init' => Ctx'
          /\ Running' /\ ~init' => dx9' = NoDevice /\ ~win32'
          /\ proc' = "ours" => target'
      BY DEF TypeOK, Backends
    <2> QED
      BY <2>1, <2>2, <2>3, <2>4, <2>5, <2>6 DEF TypeOK
  <1>2. Backends'
    BY DEF TypeOK, Backends
  <1>3. FaultsExplained'
    BY DEF TypeOK, Backends, FaultsExplained
  <1>4. MaskNeedsPanel' /\ HooksArmed' /\ PressPending'
    BY DEF TypeOK, MaskNeedsPanel, HooksArmed, PressPending
  <1> QED
    BY <1>1, <1>2, <1>3, <1>4 DEF IInv

\* A message that announces another display mode.
LEMMA DisplayTransitionInv == ASSUME IInv, DisplayTransition PROVE IInv'
  <1> USE OverlayAssumption
      DEF IInv, DisplayTransition, ShutDown, Running, Ctx, backends, game, input,
          window, panel, history
  <1>1. TypeOK'
    <2>1. /\ install' \in {"none", "armed", "done", "failed", "stranded", "removed"}
          /\ dev' \in Device \union {NoDevice} /\ dx9' \in Device \union {NoDevice}
          /\ tex' \in Device \union {NoDevice} /\ known' \in Device \union {NoDevice}
          /\ proc' \in {"game", "ours"} /\ capture' \in Slot \union {NoSlot}
          /\ fault' \in {"none", "no context", "no backend", "dead device"}
      BY DEF TypeOK
    <2>2. /\ hooks' \in BOOLEAN /\ ok' \in BOOLEAN /\ resetting' \in BOOLEAN
          /\ focus' \in BOOLEAN /\ down' \in BOOLEAN
      BY DEF TypeOK
    <2>3. /\ init' \in BOOLEAN /\ win32' \in BOOLEAN /\ target' \in BOOLEAN
      BY DEF TypeOK
    <2>4. /\ visible' \in BOOLEAN /\ masked' \in BOOLEAN /\ shown' \in BOOLEAN
      BY DEF TypeOK
    <2>5. /\ wasDown' \in BOOLEAN /\ press' \in BOOLEAN
          /\ awaiting' \in BOOLEAN /\ bare' \in BOOLEAN
      BY DEF TypeOK
    <2>6. /\ init' => Ctx'
          /\ Running' /\ ~init' => dx9' = NoDevice /\ ~win32'
          /\ proc' = "ours" => target'
      BY DEF TypeOK, Backends
    <2> QED
      BY <2>1, <2>2, <2>3, <2>4, <2>5, <2>6 DEF TypeOK
  <1>2. Backends'
    BY DEF TypeOK, Backends
  <1>3. FaultsExplained'
    BY DEF TypeOK, Backends, FaultsExplained
  <1>4. MaskNeedsPanel' /\ HooksArmed' /\ PressPending'
    BY DEF TypeOK, MaskNeedsPanel, HooksArmed, PressPending
  <1> QED
    BY <1>1, <1>2, <1>3, <1>4 DEF IInv

\* A key is rebound.
LEMMA CaptureKeyInv == ASSUME IInv, CaptureKey PROVE IInv'
  <1> USE OverlayAssumption
      DEF IInv, CaptureKey, Running, Ctx, backends, game, input, window, panel, history
  <1>1. TypeOK'
    BY DEF TypeOK, NoSlot
  <1>2. Backends'
    BY DEF TypeOK, Backends
  <1>3. FaultsExplained'
    BY DEF TypeOK, Backends, FaultsExplained
  <1>4. MaskNeedsPanel' /\ HooksArmed' /\ PressPending'
    BY DEF TypeOK, MaskNeedsPanel, HooksArmed, PressPending
  <1> QED
    BY <1>1, <1>2, <1>3, <1>4 DEF IInv

\* Another module takes the window.
LEMMA SubclassInv == ASSUME IInv, Subclass PROVE IInv'
  <1> USE OverlayAssumption
      DEF IInv, Subclass, Running, Ctx, backends, game, input, window, panel, history
  <1>1. TypeOK'
    BY DEF TypeOK, NoSlot
  <1>2. Backends'
    BY DEF TypeOK, Backends
  <1>3. FaultsExplained'
    BY DEF TypeOK, Backends, FaultsExplained
  <1>4. MaskNeedsPanel' /\ HooksArmed' /\ PressPending'
    BY DEF TypeOK, MaskNeedsPanel, HooksArmed, PressPending
  <1> QED
    BY <1>1, <1>2, <1>3, <1>4 DEF IInv

\* The toggle key goes down or up.
LEMMA ToggleKeyInv == ASSUME IInv, ToggleKey PROVE IInv'
  <1> USE OverlayAssumption
      DEF IInv, ToggleKey, Running, Ctx, backends, game, input, window, panel, history
  <1>1. TypeOK'
    BY DEF TypeOK, NoSlot
  <1>2. Backends'
    BY DEF TypeOK, Backends
  <1>3. FaultsExplained'
    BY DEF TypeOK, Backends, FaultsExplained
  <1>4. MaskNeedsPanel' /\ HooksArmed' /\ PressPending'
    BY DEF TypeOK, MaskNeedsPanel, HooksArmed, PressPending
  <1> QED
    BY <1>1, <1>2, <1>3, <1>4 DEF IInv

\* The focus changes.
LEMMA SwitchWindowInv == ASSUME IInv, SwitchWindow PROVE IInv'
  <1> USE OverlayAssumption
      DEF IInv, SwitchWindow, Running, Ctx, backends, game, input, window, panel, history
  <1>1. TypeOK'
    BY DEF TypeOK, NoSlot
  <1>2. Backends'
    BY DEF TypeOK, Backends
  <1>3. FaultsExplained'
    BY DEF TypeOK, Backends, FaultsExplained
  <1>4. MaskNeedsPanel' /\ HooksArmed' /\ PressPending'
    BY DEF TypeOK, MaskNeedsPanel, HooksArmed, PressPending
  <1> QED
    BY <1>1, <1>2, <1>3, <1>4 DEF IInv

\* Every step keeps the inductive invariant.
LEMMA NextInv == IInv /\ [Next]_vars => IInv'
  <1> SUFFICES ASSUME IInv, [Next]_vars PROVE IInv'
    OBVIOUS
  <1>1. CASE Install
    BY <1>1, InstallInv
  <1>2. CASE CreateContext
    BY <1>2, CreateContextInv
  <1>3. CASE UninstallOverlay
    BY <1>3, UninstallOverlayInv
  <1>4. CASE LoseDevice
    BY <1>4, LoseDeviceInv
  <1>5. CASE EndSceneLost
    BY <1>5, EndSceneLostInv
  <1>6. CASE EndSceneInit
    BY <1>6, EndSceneInitInv
  <1>7. CASE EndSceneDraw
    BY <1>7, EndSceneDrawInv
  <1>8. CASE ResetBegin
    BY <1>8, ResetBeginInv
  <1>9. CASE ResetSucceeds
    BY <1>9, ResetSucceedsInv
  <1>10. CASE ResetFails
    BY <1>10, ResetFailsInv
  <1>11. CASE DisplayTransition
    BY <1>11, DisplayTransitionInv
  <1>12. CASE CaptureKey
    BY <1>12, CaptureKeyInv
  <1>13. CASE Subclass
    BY <1>13, SubclassInv
  <1>14. CASE ToggleKey
    BY <1>14, ToggleKeyInv
  <1>15. CASE SwitchWindow
    BY <1>15, SwitchWindowInv
  <1>16. ASSUME NEW d \in Device, CreateDevice(d) PROVE IInv'
    BY <1>16, CreateDeviceInv
  <1>17. CASE UNCHANGED vars
    <2> USE <1>17 DEF vars, backends, game, input, window, panel, history, Running, Ctx
    <2>1. TypeOK'
      <3>1. /\ install' \in {"none", "armed", "done", "failed", "stranded", "removed"}
            /\ dev' \in Device \union {NoDevice} /\ dx9' \in Device \union {NoDevice}
            /\ tex' \in Device \union {NoDevice} /\ known' \in Device \union {NoDevice}
            /\ proc' \in {"game", "ours"} /\ capture' \in Slot \union {NoSlot}
            /\ fault' \in {"none", "no context", "no backend", "dead device"}
        BY DEF IInv, TypeOK
      <3>2. /\ hooks' \in BOOLEAN /\ ok' \in BOOLEAN /\ resetting' \in BOOLEAN
            /\ focus' \in BOOLEAN /\ down' \in BOOLEAN
        BY DEF IInv, TypeOK
      <3>3. /\ init' \in BOOLEAN /\ win32' \in BOOLEAN /\ target' \in BOOLEAN
        BY DEF IInv, TypeOK
      <3>4. /\ visible' \in BOOLEAN /\ masked' \in BOOLEAN /\ shown' \in BOOLEAN
        BY DEF IInv, TypeOK
      <3>5. /\ wasDown' \in BOOLEAN /\ press' \in BOOLEAN
            /\ awaiting' \in BOOLEAN /\ bare' \in BOOLEAN
        BY DEF IInv, TypeOK
      <3>6. /\ init' => Ctx'
            /\ Running' /\ ~init' => dx9' = NoDevice /\ ~win32'
            /\ proc' = "ours" => target'
        BY DEF IInv, TypeOK
      <3> QED
        BY <3>1, <3>2, <3>3, <3>4, <3>5, <3>6 DEF TypeOK
    <2>2. Backends' /\ FaultsExplained' /\ MaskNeedsPanel' /\ HooksArmed' /\ PressPending'
      BY DEF IInv, Backends, FaultsExplained, MaskNeedsPanel, HooksArmed, PressPending
    <2> QED
      BY <2>1, <2>2 DEF IInv
  <1> QED
    BY <1>1, <1>2, <1>3, <1>4, <1>5, <1>6, <1>7, <1>8, <1>9, <1>10, <1>11,
       <1>12, <1>13, <1>14, <1>15, <1>16, <1>17 DEF Next

\* The inductive invariant holds of every behaviour.
THEOREM Invariant == Spec => []IInv
  BY InitInv, NextInv, PTL DEF Spec

\* Every variable keeps its type, and g_imguiBackendInit is never false while a
\* backend is up.
THEOREM TypeCorrect == Spec => []TypeOK
  <1>1. IInv => TypeOK
    BY DEF IInv
  <1> QED
    BY <1>1, Invariant, PTL

\* Only a Reset that found no Win32 backend, a message inside a Reset, or an
\* installation that is not complete can end the process; nothing is drawn on a
\* device that is gone.
THEOREM FaultsExplainedHolds == Spec => []FaultsExplained
  <1>1. IInv => FaultsExplained
    BY DEF IInv
  <1> QED
    BY <1>1, Invariant, PTL

\* HookGetAsyncKeyState masks the mouse buttons only while the panel is visible.
THEOREM MaskNeedsPanelHolds == Spec => []MaskNeedsPanel
  <1>1. IInv => MaskNeedsPanel
    BY DEF IInv
  <1> QED
    BY <1>1, Invariant, PTL

\* The toggle key acts once a press, and not on behalf of another window.
THEOREM OneTogglePerPressHolds == Spec => OneTogglePerPress
  <1>1. ASSUME IInv, [Next]_vars PROVE visible' # visible => press /\ focus
    <2>1. CASE EndSceneInit \/ EndSceneDraw
      BY <1>1, <2>1 DEF IInv, TypeOK, PressPending, EndSceneInit, EndSceneDraw, Toggle
    <2>2. CASE ~(EndSceneInit \/ EndSceneDraw)
      <3>1. UNCHANGED visible
        BY <1>1, <2>2 DEF Next, Install, CreateContext, UninstallOverlay, CreateDevice,
             LoseDevice, EndSceneLost, ResetBegin, ResetSucceeds, ResetFails,
             DisplayTransition, CaptureKey, Subclass, ToggleKey, SwitchWindow, vars, panel
      <3> QED
        BY <3>1
    <2> QED
      BY <2>1, <2>2
  <1>2. IInv /\ [Next]_vars => [visible' # visible => press /\ focus]_vars
    BY <1>1
  <1> QED
    BY <1>2, Invariant, PTL DEF Spec, OneTogglePerPress
=============================================================================
