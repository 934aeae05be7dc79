---------------------------- MODULE ViewerGLFW -----------------------------
(***************************************************************************)
(* The viewer: pluginViewerGLFW (src/imgv/pluginViewerGLFW.cpp) and the    *)
(* tables of windows, drawables and uniforms of GLFWViewer                 *)
(* (src/imgv/viewerGLFW.cpp).                                              *)
(*                                                                         *)
(* An image carries a view, the name of the uniform to show it in.  One    *)
(* loop() takes all the images that are there, keeps the newest one of     *)
(* each uniform under the index of the uniform, and shows what it kept     *)
(* when the queue is empty.  Messages that lie between the images are      *)
(* obeyed meanwhile, and may delete what an index stands for.              *)
(***************************************************************************)
EXTENDS Naturals, SequencesExt

CONSTANTS
    Images,     \* the images the source owns
    Windows,    \* the names of windows
    Quads,      \* the names of quads and fbos
    Shader,     \* the samplers in the shader of each of them, in order
    Views,      \* the views <<window, quad, sampler>> images are made for
    NbUid,      \* NBUID, the indices the auto-skip has room for
    MaxSent,    \* bound: the images the source sends
    None        \* no image, no name

ASSUME ViewerAssumption ==
    /\ \A q \in Quads : Shader[q] \in Seq(STRING)
    /\ \A q \in Quads : \A i, j \in DOMAIN Shader[q] : Shader[q][i] = Shader[q][j] => i = j
    /\ None \notin Images \cup Windows \cup Quads
    /\ \A v \in Views : v = <<v[1], v[2], v[3]>>
    /\ NbUid \in Nat
    /\ MaxSent \in Nat

VARIABLES
    windows, drawables, unifs,  \* the tables; a deleted entry is used again
    idle,       \* the images the source may fill
    image,      \* of each image under way: its view and its number
    sent,       \* how many images the source sent
    in,         \* the images in the queue of port "in"
    uidDisplayed,   \* the image kept for each uniform
    phase,      \* what the thread does
    manual,     \* /manual
    kill,       \* pluginViewerGLFW::kill, which hides plugin::kill
    cancel,     \* pthread_cancel was called
    running,    \* plugin::running
    joining,    \* the program waits in pthread_join
    stale,      \* history: the indices deleted while an image was kept for them
    torn,       \* history: the live drawables that lost some of their uniforms
    shown       \* history: the number of the last image shown for each view

tables == <<windows, drawables, unifs>>
images == <<idle, image, sent, in, uidDisplayed, shown>>
life == <<cancel, running, joining>>
vars == <<windows, drawables, unifs, idle, image, sent, in, uidDisplayed, phase, manual,
          kill, cancel, running, joining, stale, torn, shown>>

Uids == 1 .. NbUid      \* an index of the program plus one; 0 stands for its -1

-----------------------------------------------------------------------------
(* The tables.                                                             *)

Live(t) == {i \in DOMAIN t : ~t[i].deleted}

\* findFreeWindow, findFreeDrawable, findFreeUnif: the first deleted entry, or a new one.
FindFree(t) ==
    LET i == SelectInSeq(t, LAMBDA y : y.deleted)
    IN  IF i = 0 THEN Len(t) + 1 ELSE i

Put(t, x) == IF FindFree(t) > Len(t) THEN Append(t, x) ELSE ReplaceAt(t, FindFree(t), x)

\* findWindow, findDrawable, findUnif: an index, or 0 when there is none.
FindWindow(w) == SelectInSeq(windows, LAMBDA x : ~x.deleted /\ x.name = w)
FindDrawable(w, q) ==
    SelectInSeq(drawables, LAMBDA x : ~x.deleted /\ x.name = q /\ x.wid = FindWindow(w))
\* Mutated form of FindUnif: the uniform is looked for in the whole window.
FindUnifInWindow(w, q, u) ==
    IF FindWindow(w) = 0 THEN 0
    ELSE SelectInSeq(unifs, LAMBDA x :
             ~x.deleted /\ drawables[x.did].wid = FindWindow(w) /\ x.name = u)

FindUnif(w, q, u) ==
    IF FindWindow(w) = 0 THEN 0
    ELSE SelectInSeq(unifs, LAMBDA x :
             /\ ~x.deleted
             /\ drawables[x.did].wid = FindWindow(w)
             /\ drawables[x.did].name = q
             /\ x.name = u)

\* getUniformFromView.
UniformOf(v) == FindUnif(v[1], v[2], v[3])

DeletedIn(t, S) == [i \in DOMAIN t |-> IF i \in S THEN [t[i] EXCEPT !.deleted = TRUE] ELSE t[i]]
\* Mutated form of DeleteDrawables: the uniforms of a deleted drawable stay.
DeleteDrawablesOnly(dids) ==
    /\ drawables' = DeletedIn(drawables, dids)
    /\ torn' = torn \ dids
    /\ UNCHANGED <<unifs, stale>>

\* An image kept for a uniform that is deleted is not told.
DeleteEntries(dids, uids) ==
    /\ drawables' = DeletedIn(drawables, dids)
    /\ unifs' = DeletedIn(unifs, uids)
    /\ stale' = stale \cup {u \in uids \cap Uids : uidDisplayed[u] # None}

UnifsOf(dids) == {u \in DOMAIN unifs : unifs[u].did \in dids}

\* delDrawable: the uniforms go with their drawable.
DeleteDrawables(dids) == DeleteEntries(dids, UnifsOf(dids)) /\ torn' = torn \ dids

\* The thread ends in the delDrawable of d, called by GLFWViewer::stop, where it prints that it
\* deletes uniform n, or before (0): those before it are gone, and the live drawables before d.
StopsShort(d, n) ==
    LET before == {e \in Live(drawables) : e < d}
        lost == {u \in UnifsOf({d}) : u < n}
    IN  /\ DeleteEntries(before, UnifsOf(before) \cup lost)
        /\ torn' = (torn \ before) \cup IF lost \cap Live(unifs) = {} THEN {} ELSE {d}

\* addUniforms: the r-th sampler of the shader goes to the r-th free entry of the table.
Free(t, k) == k > Len(t) \/ t[k].deleted
Rank(t, k) == Cardinality({j \in 1 .. k : Free(t, j)})
WithUniforms(t, did, samplers) ==
    LET missing == Len(samplers) - Rank(t, Len(t))
    IN  [k \in 1 .. IF missing > 0 THEN Len(t) + missing ELSE Len(t) |->
            IF Free(t, k) /\ Rank(t, k) <= Len(samplers)
            THEN [deleted |-> FALSE, did |-> did, name |-> samplers[Rank(t, k)]]
            ELSE t[k]]

Blank == [view |-> None, n |-> 0]   \* an idle image, whatever it was

Init ==
    /\ windows = <<>> /\ drawables = <<>> /\ unifs = <<>>
    /\ idle = Images
    /\ image = [i \in Images |-> Blank]
    /\ sent = 0
    /\ in = <<>>
    /\ uidDisplayed = [u \in Uids |-> None]
    /\ phase = "off"
    /\ manual = FALSE /\ kill = FALSE
    /\ cancel = FALSE /\ running = FALSE /\ joining = FALSE
    /\ stale = {} /\ torn = {}
    /\ shown = [v \in Views |-> 0]

-----------------------------------------------------------------------------
(* The program and the source.                                             *)

Start ==
    /\ ~running
    /\ running' = TRUE
    /\ phase' = "init"
    /\ UNCHANGED <<tables, images, manual, kill, cancel, joining, stale, torn>>

\* qpmanager::stop calls plugin::stop, which is not virtual: it cancels.
StopByManager ==
    /\ running /\ ~joining
    /\ cancel' = TRUE
    /\ joining' = TRUE
    /\ UNCHANGED <<tables, images, phase, manual, kill, running, stale, torn>>

\* pluginViewerGLFW::stop, called by a program that owns the object, when init() is over.
StopByOwner ==
    /\ running /\ ~joining
    /\ phase # "init"
    /\ kill' = TRUE
    /\ joining' = TRUE
    /\ UNCHANGED <<tables, images, phase, manual, cancel, running, stale, torn>>

Joined ==
    /\ joining /\ phase = "ended"
    /\ phase' = "off"
    /\ running' = FALSE /\ joining' = FALSE /\ cancel' = FALSE
    /\ UNCHANGED <<tables, images, manual, kill, stale, torn>>

Source ==
    /\ sent < MaxSent
    /\ \E i \in idle, v \in Views :
          /\ idle' = idle \ {i}
          /\ image' = [image EXCEPT ![i] = [view |-> v, n |-> sent + 1]]
          /\ in' = Append(in, i)
    /\ sent' = sent + 1
    /\ UNCHANGED <<tables, uidDisplayed, shown, phase, manual, kill, life, stale, torn>>

-----------------------------------------------------------------------------
(* The messages, decoded in pop_front_nowait.                              *)

Obeying ==
    /\ phase \in {"gather", "manual"}
    /\ UNCHANGED <<images, phase, life>>

\* addWindow.
NewWindow(w) ==
    /\ Obeying
    /\ windows' = IF FindWindow(w) = 0 THEN Put(windows, [deleted |-> FALSE, name |-> w]) ELSE windows
    /\ UNCHANGED <<drawables, unifs, manual, kill, stale, torn>>

\* addQuad, addFbo.
NewQuad(w, q) ==
    /\ Obeying
    /\ FindWindow(w) # 0 /\ FindDrawable(w, q) = 0
    /\ drawables' = Put(drawables, [deleted |-> FALSE, name |-> q, wid |-> FindWindow(w)])
    /\ unifs' = WithUniforms(unifs, FindFree(drawables), Shader[q])
    /\ UNCHANGED <<windows, manual, kill, stale, torn>>

\* A shader that cannot be loaded: the new entry of the table stays, deleted.
NewQuadFails(w, q) ==
    /\ Obeying
    /\ FindWindow(w) # 0 /\ FindDrawable(w, q) = 0
    /\ drawables' = IF FindFree(drawables) > Len(drawables)
                    THEN Append(drawables, [deleted |-> TRUE, name |-> None, wid |-> 0])
                    ELSE drawables
    /\ UNCHANGED <<windows, unifs, manual, kill, stale, torn>>

DelQuad(w, q) ==
    /\ Obeying
    /\ FindDrawable(w, q) # 0
    /\ DeleteDrawables({FindDrawable(w, q)})
    /\ UNCHANGED <<windows, manual, kill>>

DelWindow(w) ==
    /\ Obeying
    /\ FindWindow(w) # 0
    /\ DeleteDrawables({d \in Live(drawables) : drawables[d].wid = FindWindow(w)})
    /\ windows' = DeletedIn(windows, {FindWindow(w)})
    /\ UNCHANGED <<manual, kill>>

SetManual ==
    /\ Obeying
    /\ manual' \in BOOLEAN
    /\ UNCHANGED <<tables, kill, stale, torn>>

Kill ==
    /\ Obeying
    /\ kill' = TRUE
    /\ UNCHANGED <<tables, manual, stale, torn>>

Decode ==
    \/ \E w \in Windows : NewWindow(w) \/ DelWindow(w)
    \/ \E w \in Windows, q \in Quads : NewQuad(w, q) \/ NewQuadFails(w, q) \/ DelQuad(w, q)
    \/ SetManual
    \/ Kill

-----------------------------------------------------------------------------
(* The thread.                                                             *)

InitDone ==
    /\ phase = "init"
    /\ kill' = FALSE
    /\ phase' = "loop"
    /\ UNCHANGED <<tables, images, manual, life, stale, torn>>

\* Mutated form of Turn: the images kept by a thread that was cancelled are still there.
TurnKeeps ==
    /\ phase = "loop"
    /\ phase' = IF kill THEN "uninit" ELSE IF manual THEN "manual" ELSE "gather"
    /\ UNCHANGED <<tables, images, manual, kill, life, stale, torn>>

\* Mutated form of Turn: only the main loop of the plugin looks at kill, and that is plugin::kill.
TurnHidden ==
    /\ phase = "loop"
    /\ phase' = IF manual THEN "manual" ELSE "gather"
    /\ UNCHANGED <<tables, images, manual, kill, life, stale, torn>>

\* The auto-skip is reset: what a cancelled thread had kept is lost.
Turn ==
    /\ phase = "loop"
    /\ phase' = IF kill THEN "uninit" ELSE IF manual THEN "manual" ELSE "gather"
    /\ IF phase' = "gather"
       THEN uidDisplayed' = [u \in Uids |-> None] /\ stale' = {}
       ELSE UNCHANGED <<uidDisplayed, stale>>
    /\ UNCHANGED <<tables, idle, image, sent, in, shown, manual, kill, life, torn>>

\* recyclable::recycle.
GiveBack(S) ==
    /\ idle' = idle \cup S
    /\ image' = [i \in Images |-> IF i \in S THEN Blank ELSE image[i]]

\* setUniformData(uid, image) and push_back.
Displayed(S) ==
    /\ shown' = [v \in Views |-> LET ns == {image[i].n : i \in {j \in S : image[j].view = v}}
                                IN  IF ns = {} THEN shown[v] ELSE CHOOSE n \in ns : \A k \in ns : k <= n]
    /\ GiveBack(S)

ManualImage ==
    /\ phase = "manual"
    /\ in # <<>>
    /\ in' = Tail(in)
    /\ IF UniformOf(image[Head(in)].view) = 0
       THEN GiveBack({Head(in)}) /\ UNCHANGED shown
       ELSE Displayed({Head(in)})
    /\ UNCHANGED <<tables, sent, uidDisplayed, phase, manual, kill, life, stale, torn>>

ManualDone ==
    /\ phase = "manual"
    /\ in = <<>>
    /\ phase' = "loop"
    /\ UNCHANGED <<tables, images, manual, kill, life, stale, torn>>

\* The newest image of a uniform replaces the one that was kept.
Keep(uid, i) ==
    /\ uidDisplayed' = [uidDisplayed EXCEPT ![uid] = i]
    /\ GiveBack({uidDisplayed[uid]} \ {None})
    /\ stale' = stale \ {uid}

\* An image without a uniform passes; one whose index is beyond NBUID gets lost.
TakeImage ==
    /\ phase = "gather"
    /\ in # <<>>
    /\ in' = Tail(in)
    /\ LET uid == UniformOf(image[Head(in)].view)
       IN  \/ uid = 0 /\ GiveBack({Head(in)}) /\ UNCHANGED <<uidDisplayed, stale>>
           \/ uid \in Uids /\ Keep(uid, Head(in))
           \/ uid > NbUid /\ UNCHANGED <<idle, image, uidDisplayed, stale>>
    /\ UNCHANGED <<tables, sent, shown, phase, manual, kill, life, torn>>

Kept == {u \in Uids : uidDisplayed[u] # None}

\* Mutated form of ShowAll: push_back does not take the pointer away.
ShowAllKeeps ==
    /\ phase = "gather"
    /\ in = <<>>
    /\ Displayed({uidDisplayed[u] : u \in Kept})
    /\ phase' = "loop"
    /\ UNCHANGED <<tables, sent, in, uidDisplayed, manual, kill, life, stale, torn>>

\* The queue is empty: everything that was kept is shown and given back.
ShowAll ==
    /\ phase = "gather"
    /\ in = <<>>
    /\ Displayed({uidDisplayed[u] : u \in Kept})
    /\ uidDisplayed' = [u \in Uids |-> None] /\ stale' = {}
    /\ phase' = "loop"
    /\ UNCHANGED <<tables, sent, in, manual, kill, life, torn>>

\* uninit() -> GLFWViewer::stop.
Uninit ==
    /\ phase \in {"uninit", "cleanup"}
    /\ windows' = <<>> /\ drawables' = <<>> /\ unifs' = <<>> /\ torn' = {}
    /\ phase' = "ended"
    /\ UNCHANGED <<images, manual, kill, life, stale>>

\* A cancel is acted upon where the thread prints or polls: with what it kept (a message it
\* was obeying is left half done, in tables that uninit() empties next), ...
CancelledInLoop ==
    /\ cancel /\ phase \in {"loop", "gather", "manual"}
    /\ phase' = "cleanup"
    /\ UNCHANGED <<tables, images, manual, kill, life, stale, torn>>

\* ... and, at "skip!" or "NBUID too low", with the image it has just popped;
CancelledWithImage ==
    /\ cancel /\ phase = "gather"
    /\ in # <<>>
    /\ LET uid == UniformOf(image[Head(in)].view) IN uid \in Kept \/ uid > NbUid
    /\ in' = Tail(in)
    /\ phase' = "cleanup"
    /\ UNCHANGED <<tables, idle, image, sent, uidDisplayed, shown, manual, kill, life, stale, torn>>

\* ... in init(), whose cleanup handler is not installed yet; and in uninit(), when the
\* loop has ended by itself and the handler is no more installed: what is in the tables stays.
CancelledOutside ==
    /\ cancel /\ phase \in {"init", "uninit"}
    /\ phase' = "ended"
    /\ \/ UNCHANGED <<drawables, unifs, stale, torn>>
       \/ /\ phase = "uninit"
          /\ \E d \in Live(drawables) : \E n \in {0} \cup UnifsOf({d}) : StopsShort(d, n)
    /\ UNCHANGED <<windows, images, manual, kill, life>>

Cancelled == CancelledInLoop \/ CancelledWithImage \/ CancelledOutside
Gathering == Decode \/ ManualImage \/ TakeImage
Loop == InitDone \/ Turn \/ ManualDone \/ ShowAll \/ Uninit
Program == Start \/ StopByManager \/ StopByOwner
Next == Program \/ Joined \/ Source \/ Gathering \/ Loop \/ Cancelled

Spec == Init /\ [][Next]_vars

\* The thread goes on, it polls events at every turn, and messages and images do not
\* come so fast that the queue is never seen empty.
Fairness ==
    /\ WF_vars(Loop) /\ WF_vars(ManualImage \/ TakeImage)
    /\ WF_vars(Cancelled) /\ WF_vars(Joined)
FairSpec == Spec /\ Fairness

-----------------------------------------------------------------------------
(* Properties.                                                             *)

Window == [deleted : BOOLEAN, name : Windows]
Drawable == [deleted : BOOLEAN, name : Quads \cup {None}, wid : Nat]
Uniform == [deleted : BOOLEAN, did : Nat, name : STRING]

\* Types; an image is in one place: with the source, in the queue, or kept for one uniform.
TypeOK ==
    /\ windows \in Seq(Window) /\ drawables \in Seq(Drawable) /\ unifs \in Seq(Uniform)
    /\ idle \subseteq Images /\ in \in Seq(Images)
    /\ uidDisplayed \in [Uids -> Images \cup {None}]
    /\ phase \in {"off", "init", "loop", "gather", "manual", "uninit", "cleanup", "ended"}
    /\ {manual, kill, cancel, running, joining} \subseteq BOOLEAN
    /\ sent \in 0 .. MaxSent /\ stale \subseteq Uids /\ torn \subseteq Nat
    /\ \A j, k \in DOMAIN in : in[j] = in[k] => j = k
    /\ \A j \in DOMAIN in : in[j] \notin idle
    /\ \A u, v \in Kept : uidDisplayed[u] = uidDisplayed[v] => u = v
    /\ \A u \in Kept : uidDisplayed[u] \notin idle /\ \A j \in DOMAIN in : in[j] # uidDisplayed[u]

\* A live drawable is in a live window and has exactly the uniforms of its shader, or some of
\* them if it is torn; a live uniform belongs to a live drawable, and a name that messages use
\* stands for one entry.
Consistent ==
    /\ \A i, j \in Live(windows) : windows[i].name = windows[j].name => i = j
    /\ \A d \in Live(drawables) :
          /\ drawables[d].wid \in Live(windows)
          /\ LET own == {u \in Live(unifs) : unifs[u].did = d}
                 names == {unifs[u].name : u \in own}
             IN  /\ names \subseteq ToSet(Shader[drawables[d].name])
                 /\ d \notin torn => names = ToSet(Shader[drawables[d].name])
                 /\ \A u, v \in own : unifs[u].name = unifs[v].name => u = v
    /\ \A d, e \in Live(drawables) :
          drawables[d].name = drawables[e].name /\ drawables[d].wid = drawables[e].wid => d = e
    /\ \A u \in Live(unifs) : unifs[u].did \in Live(drawables)
    /\ torn \subseteq Live(drawables)

\* The tables agree however entries are deleted and used again, over stops and restarts, also
\* where stop() ends the thread in the uninit() of a /kill: of what start() finds then, only
\* the drawable that was being deleted lacks uniforms, until it is deleted.  (A message that a
\* cancel leaves half done disturbs the tables until uninit() has emptied them.)
TablesSound == phase # "cleanup" => Consistent

\* What the thread is about to show goes to the uniform its view names, unless that
\* uniform was deleted after the image was taken (the index is not looked up again).
ShownWhereAsked ==
    phase = "gather" => \A u \in Kept \ stale :
        /\ u \in Live(unifs)
        /\ LET d == drawables[unifs[u].did]
           IN  image[uidDisplayed[u]].view = <<windows[d.wid].name, d.name, unifs[u].name>>

\* Auto-skip, manual mode, stops and restarts never show an image after a newer one of
\* the same view.
NeverBackInTime == [][\A v \in Views : shown'[v] >= shown[v]]_vars

\* stop() returns, whether it cancels the thread or asks it to end.
StopReturns == joining ~> ~joining
=============================================================================
