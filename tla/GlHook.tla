------------------------------- MODULE GlHook -------------------------------
(***************************************************************************)
(* The OpenGL side of Sigaw: the interposed glXSwapBuffers and             *)
(* eglSwapBuffers draw the panel into the game's frame with objects of     *)
(* their own in the game's context (layer/overlay_gl.cpp), and put the     *)
(* game's state back.  A swap is one call on the thread that owns the      *)
(* context, hence one action; between two swaps the game changes its       *)
(* bindings, makes and deletes objects, and may destroy the context.       *)
(*                                                                         *)
(* GL object names are small numbers, 0 stands for none.  Program,         *)
(* framebuffer, viewport, masks, blending and tests, which are saved and   *)
(* restored one for one, are the single binding "rest".                    *)
(***************************************************************************)
EXTENDS Integers, FiniteSets

CONSTANTS
    GlProfiles,  \* the kinds of contexts: "core", "compat", "gles"
    GlNames,     \* object names, positive numbers; drivers give out the smallest
    GlPanels,    \* what the panel can show: functions with fields ver and size
    GlGames      \* the games considered: subsets of GlHabits

(* rebinds: the game binds textures of its own to unit 0 between swaps.    *)
(* switches: it uses unit 1 too, which may be active at a swap.            *)
(* oes: a GLES driver offers glGenVertexArraysOES and its companions.      *)
(* elsewhere: a context is destroyed by a thread where it is not current,  *)
(* while others share its objects.                                         *)
GlHabits == {"rebinds", "switches", "oes", "elsewhere"}

ASSUME GlAssumption == /\ GlProfiles \subseteq {"core", "compat", "gles"}
                       /\ GlNames \subseteq Nat \ {0}
                       /\ \A p \in GlPanels : p.size \in Nat \ {0}
                       /\ GlGames \subseteq SUBSET GlHabits

GlKinds == {"prog", "buf", "vao", "tex"}
GlUnits == {0, 1}
GlNoPanel == [ver |-> 0, size |-> 0]

VARIABLES
    profile,     \* the kind of the game's context
    habits,      \* what the game does, beyond making and binding its objects
    bound,       \* the game's GL state: active unit and bindings
    glLive,      \* for each kind, the names of the objects that exist
    owned,       \* for each kind, the names of objects the game made
    state,       \* the hook's ContextState of this context
    drawn        \* what the overlay's last draw sampled

glVars == <<profile, habits, bound, glLive, owned, state, drawn>>

FreshState ==
    [name |-> [k \in GlKinds |-> 0], failed |-> FALSE,
     useVao |-> FALSE, oesVao |-> FALSE,
     texSize |-> 0, content |-> GlNoPanel, prepared |-> GlNoPanel]

FreshBindings ==
    [unit |-> 0, tex |-> [u \in GlUnits |-> 0], buf |-> 0, vao |-> 0,
     attr |-> [v \in GlNames \cup {0} |-> "game"], rest |-> "game"]

GlInit ==
    /\ profile \in GlProfiles
    /\ habits \in GlGames
    /\ bound = FreshBindings
    /\ glLive = [k \in GlKinds |-> {}]
    /\ owned = [k \in GlKinds |-> {}]
    /\ state = FreshState
    /\ drawn = GlNoPanel

-----------------------------------------------------------------------------
(* The parts of render_overlay.  Each maps a record g of bound, live, state *)
(* and ok to the set of its possible results: creations may fail, and the   *)
(* driver chooses the names.                                                *)

NextName(alive) == {n \in GlNames \ alive : \A m \in GlNames \ alive : n <= m}

GlMake(g, k) ==
    {[g EXCEPT !.live[k] = @ \cup {n}, !.state.name[k] = n] : n \in NextName(g.live[k])}

GlDelete(g, k, n) == [g EXCEPT !.live[k] = @ \ {n}]

GlFail(g) == [g EXCEPT !.ok = FALSE]

(* ensure_program, first part: a context whose flavour has changed loses   *)
(* its objects.  state.use_vao is compared with what the shader needs, not *)
(* with what was stored, and state.vao is deleted but not forgotten.       *)
DesiredVao == profile = "core"
DesiredOes == profile = "gles" /\ "oes" \in habits

Flavoured(g) ==
    LET stale == /\ g.state.name.prog # 0
                 /\ \/ g.state.useVao # DesiredVao
                    \/ g.state.oesVao # DesiredOes
        Drop(h, k) == GlDelete(h, k, h.state.name[k])
        emptied == [Drop(Drop(Drop(Drop(g, "prog"), "vao"), "buf"), "tex") EXCEPT
                        !.state.name.prog = 0, !.state.name.buf = 0,
                        !.state.name.tex = 0, !.state.texSize = 0]
    IN  [(IF stale THEN emptied ELSE g) EXCEPT
            !.state.useVao = DesiredVao \/ DesiredOes, !.state.oesVao = DesiredOes]

(* link_program: no program at all, or one without its uniforms, is final. *)
Linked(g) ==
    IF g.state.failed THEN {GlFail(g)}
    ELSE IF g.state.name.prog # 0 THEN {g}
    ELSE LET made == GlMake(g, "prog")
             failing(S) == {GlFail([h EXCEPT !.state.failed = TRUE]) : h \in S}
         IN  made \cup failing(made) \cup failing({g})

(* ensure_geometry: what it makes, it leaves bound.                        *)
BindVao(g) ==
    [g EXCEPT !.bound.vao = g.state.name.vao, !.bound.buf = g.state.name.buf,
              !.bound.attr[g.state.name.vao] = "overlay"]

WithBuffer(g) ==
    IF g.state.name.buf # 0 THEN {g}
    ELSE {[h EXCEPT !.bound.buf = h.state.name.buf] : h \in GlMake(g, "buf")} \cup {GlFail(g)}

WithVao(g) ==
    IF ~g.state.useVao \/ g.state.name.vao # 0 THEN {g}
    ELSE {BindVao(h) : h \in GlMake(g, "vao")} \cup {GlFail(g)}

(* ensure_program, last part: the texture is bound on the active unit.     *)
WithTexture(g) ==
    IF g.state.name.tex # 0 THEN {g}
    ELSE {[h EXCEPT !.bound.tex[h.bound.unit] = h.state.name.tex] : h \in GlMake(g, "tex")}
         \cup {GlFail(g)}

GlThen(S, Part(_)) == UNION {IF g.ok THEN Part(g) ELSE {g} : g \in S}

EnsureProgram(g) ==
    GlThen(GlThen(GlThen(GlThen({Flavoured(g)}, Linked), WithBuffer), WithVao), WithTexture)

(* save_gl_state selects unit 0 before it reads the texture binding.       *)
SaveState(g) ==
    [unit |-> g.bound.unit, tex |-> g.bound.tex[0], buf |-> g.bound.buf,
     vao |-> g.bound.vao, attr |-> g.bound.attr[g.bound.vao], rest |-> g.bound.rest]

(* A plausible bug in upload_texture: an unchanged panel is never uploaded. *)
UploadChangedOnly(g, panel, changed) ==
    LET h == [g EXCEPT !.bound.unit = 0]
    IN  IF ~changed THEN h
        ELSE [h EXCEPT !.bound.tex[0] = g.state.name.tex,
                       !.state.texSize = panel.size, !.state.content = panel]

(* upload_texture: nothing, not even a binding, for an unchanged panel.    *)
Upload(g, panel, changed) ==
    LET h == [g EXCEPT !.bound.unit = 0]
    IN  IF ~changed /\ g.state.texSize = panel.size THEN h
        ELSE [h EXCEPT !.bound.tex[0] = g.state.name.tex,
                       !.state.texSize = panel.size, !.state.content = panel]

(* render_overlay: the draw, with the vertex array or attribute 0.  The    *)
(* shader samples unit 0.                                                  *)
Draw(g) ==
    LET h == [g EXCEPT !.bound.rest = "overlay"]
    IN  IF g.state.useVao
        THEN [h EXCEPT !.bound.vao = IF g.state.name.vao \in g.live.vao
                                     THEN g.state.name.vao ELSE @]
        ELSE [h EXCEPT !.bound.buf = g.state.name.buf,
                       !.bound.attr[g.bound.vao] = "overlay"]

Sampled(g) ==
    IF g.bound.tex[0] = g.state.name.tex THEN g.state.content ELSE [ver |-> -1, size |-> 0]

(* A plausible bug in restore_gl_state: the vertex array is forgotten.     *)
RestoreWithoutArrays(g, saved) ==
    [g EXCEPT !.bound.buf = saved.buf, !.bound.rest = saved.rest,
              !.bound.unit = saved.unit, !.bound.tex[saved.unit] = saved.tex]

(* restore_gl_state, in its order: the active unit is selected first, and  *)
(* the texture saved from unit 0 is bound there.                           *)
RestoreState(g, saved) ==
    LET arrays == IF g.state.useVao THEN [g EXCEPT !.bound.vao = saved.vao]
                  ELSE [g EXCEPT !.bound.attr[g.bound.vao] = saved.attr]
    IN  [arrays EXCEPT !.bound.buf = saved.buf, !.bound.rest = saved.rest,
                       !.bound.unit = saved.unit, !.bound.tex[saved.unit] = saved.tex]

-----------------------------------------------------------------------------
(* glXSwapBuffers, eglSwapBuffers with render_for_glx, render_for_egl: an   *)
(* empty frame (GlNoPanel: hidden, or no surface) leaves everything alone.    *)
SwapEmpty ==
    /\ drawn' = GlNoPanel
    /\ UNCHANGED <<profile, habits, bound, glLive, owned, state>>

SwapBuffers(panel) ==
    LET changed == panel # state.prepared
        start == [bound |-> bound, live |-> glLive, ok |-> TRUE,
                  state |-> [state EXCEPT !.prepared = panel]]
    IN  \E g \in EnsureProgram(start) :
            LET up  == Upload(g, panel, changed)
                fin == IF g.ok THEN RestoreState(Draw(up), SaveState(g)) ELSE g
            IN  /\ bound' = fin.bound
                /\ glLive' = fin.live
                /\ state' = fin.state
                /\ drawn' = IF g.ok THEN Sampled(Draw(up)) ELSE GlNoPanel
                /\ UNCHANGED <<profile, habits, owned>>

(* A plausible bug in destroy_context_resources: only the program goes.     *)
DestroyProgramOnly(g) == GlDelete(g, "prog", g.state.name.prog)

(* destroy_context_resources, with drop_context_state: only a thread that   *)
(* has the context current may delete its objects.  The objects of a share  *)
(* group outlive the context, its vertex arrays do not.                     *)
DestroyResources(g) ==
    LET Drop(h, k) == GlDelete(h, k, h.state.name[k])
    IN  Drop(Drop(Drop(Drop(g, "prog"), "tex"), "buf"), "vao")

DestroyContext(current) ==
    LET g == [bound |-> bound, live |-> glLive, state |-> state, ok |-> TRUE]
        rest == (IF current THEN DestroyResources(g) ELSE g).live
    IN  /\ current \/ "elsewhere" \in habits
        /\ glLive' = [rest EXCEPT !.vao = {}]
        /\ owned' = [owned EXCEPT !.vao = {}]
        /\ state' = FreshState
        /\ bound' = FreshBindings
        /\ drawn' = GlNoPanel
        /\ UNCHANGED <<profile, habits>>

-----------------------------------------------------------------------------
(* The game, between two swaps.  It holds at most one object at a time.    *)

GameMakes(k, n) ==
    /\ k \in {"buf", "vao", "tex"} /\ n \in NextName(glLive[k]) /\ owned = [j \in GlKinds |-> {}]
    /\ glLive' = [glLive EXCEPT ![k] = @ \cup {n}]
    /\ owned' = [owned EXCEPT ![k] = {n}]
    /\ UNCHANGED <<profile, habits, bound, state, drawn>>

(* Deleting an object unbinds it; names the game does not own are not its. *)
GameDeletes(k, n) ==
    /\ k \in {"buf", "vao", "tex"} /\ n \in owned[k]
    /\ glLive' = [glLive EXCEPT ![k] = @ \ {n}]
    /\ owned' = [owned EXCEPT ![k] = {}]
    /\ bound' = [bound EXCEPT
                    !.tex = [u \in GlUnits |-> IF k = "tex" /\ @[u] = n THEN 0 ELSE @[u]],
                    !.buf = IF k = "buf" /\ @ = n THEN 0 ELSE @,
                    !.vao = IF k = "vao" /\ @ = n THEN 0 ELSE @,
                    !.attr = IF k = "vao" THEN [@ EXCEPT ![n] = "game"] ELSE @]
    /\ UNCHANGED <<profile, habits, state, drawn>>

GameBinds ==
    /\ \/ \E u \in GlUnits, n \in owned.tex \cup {0} :
             /\ IF u = 0 THEN "rebinds" \in habits ELSE "switches" \in habits
             /\ bound' = [bound EXCEPT !.tex[u] = n]
       \/ \E n \in owned.buf \cup {0} : bound' = [bound EXCEPT !.buf = n]
       \/ \E n \in owned.vao \cup {0} : bound' = [bound EXCEPT !.vao = n]
       \/ /\ "switches" \in habits
          /\ \E u \in GlUnits : bound' = [bound EXCEPT !.unit = u]
    /\ UNCHANGED <<profile, habits, glLive, owned, state, drawn>>

GlNext ==
    \/ SwapEmpty
    \/ \E p \in GlPanels : SwapBuffers(p)
    \/ \E c \in BOOLEAN : DestroyContext(c)
    \/ \E k \in GlKinds, n \in GlNames : GameMakes(k, n) \/ GameDeletes(k, n)
    \/ GameBinds

GlSpec == GlInit /\ [][GlNext]_glVars

-----------------------------------------------------------------------------
(* Values of the right kind; the hook binds only units that exist.          *)
GlTypeOK ==
    /\ profile \in GlProfiles /\ habits \in GlGames
    /\ bound \in [unit : GlUnits, tex : [GlUnits -> GlNames \cup {0}],
                  buf : GlNames \cup {0}, vao : GlNames \cup {0},
                  attr : [GlNames \cup {0} -> {"game", "overlay"}],
                  rest : {"game", "overlay"}]
    /\ glLive \in [GlKinds -> SUBSET GlNames]
    /\ owned \in [GlKinds -> SUBSET GlNames]
    /\ state.name \in [GlKinds -> GlNames \cup {0}]
    /\ state.prepared \in GlPanels \cup {GlNoPanel}

(* What exists is the game's or is remembered by the hook: nothing the     *)
(* hook made is lost by a failure in the middle of ensure_program or left  *)
(* behind by the end of the context, no name it remembers is dead, and it  *)
(* never deletes an object of the game.  Not so with "oes", where a vertex *)
(* array is deleted and its name kept, nor with "elsewhere", where the     *)
(* hook may not delete what it made.                                       *)
OverlayOwns ==
    habits \cap {"oes", "elsewhere"} = {} =>
        \A k \in GlKinds : /\ glLive[k] = owned[k] \cup ({state.name[k]} \ {0})
                           /\ state.name[k] \notin owned[k]

(* A swap that has its objects (the texture comes last) ends with its panel *)
(* in the texture, uploaded now or by an earlier swap, whatever failed or   *)
(* was destroyed before, and its draw samples it.  There is one way to draw *)
(* something else: the panel is unchanged, so upload_texture binds nothing, *)
(* and a game that uses textures has left one of its own on unit 0.        *)
PanelSampled ==
    [][\A p \in GlPanels : SwapBuffers(p) /\ state'.name["tex"] # 0 =>
          /\ state'.content = p
          /\ drawn' = p \/ (/\ "rebinds" \in habits
                            /\ p = state.prepared /\ bound.tex[0] # state.name["tex"])]_glVars

(* A swap that makes no objects gives the game its state back, bindings,   *)
(* vertex array and attribute included.  Not so when it makes some, which  *)
(* happens before the state is saved; nor with "switches", since the       *)
(* texture of unit 0 is put back on the unit that was active; nor "oes".   *)
GameStateKept ==
    [][/\ bound' # bound /\ state'.name = state.name
       /\ habits \cap {"switches", "oes"} = {}
       => \A p \in GlPanels : ~SwapBuffers(p)]_glVars
=============================================================================
