----------------------------- MODULE MCOverlay -----------------------------
(* Small instances of what an overlay does in a game's process, where the  *)
(* steps share no state: it reads the voice segment (with its writer, the  *)
(* daemon), it composites the panel with Vulkan, it draws it with OpenGL.   *)
(* A behaviour runs one of them; the others rest in one initial state.      *)
EXTENDS MCVoiceShm, Compositor, GlHook

VARIABLE overlay

(* Two contents of one size, and one of another size.                       *)
GlPanelsDef == {[ver |-> 1, size |-> 1], [ver |-> 2, size |-> 1]}
CmpPanelsDef == GlPanelsDef \cup {[ver |-> 3, size |-> 2]}

(* What drivers and games may do to the compositor.                        *)
CmpWorldsDef == {{}, {"grows"}, {"memory", "reformats", "reuses"}}

(* What games may do: keep to the rules of the common ones, bind a texture  *)
(* of their own, leave another unit active, use another context's thread.   *)
GlGamesDef == {{}, {"rebinds"}, {"switches"}, {"oes", "elsewhere"}}

OverlayVars == <<overlay, vars, cmpVars, glVars>>

OverlayInit ==
    /\ overlay \in {"read", "composite", "gl"}
    /\ Init
    /\ CmpInit /\ target = 1
    /\ overlay # "composite" => route = "copy" /\ ~behind /\ world = {}
    /\ GlInit
    /\ overlay # "gl" => profile = "core" /\ habits = {}

OverlayNext ==
    /\ UNCHANGED overlay
    /\ \/ overlay = "read" /\ Next /\ UNCHANGED <<cmpVars, glVars>>
       \/ overlay = "composite" /\ CmpNext /\ UNCHANGED <<vars, glVars>>
       \/ overlay = "gl" /\ GlNext /\ UNCHANGED <<vars, cmpVars>>

OverlaySpec == OverlayInit /\ [][OverlayNext]_OverlayVars

(* The three parts' variables hold values of their kinds.                   *)
OverlayTypeOK == TypeOK /\ CmpTypeOK /\ GlTypeOK
=============================================================================
