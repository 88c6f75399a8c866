------------------------------- MODULE PlotGl -------------------------------
(***************************************************************************)
(* The 3D plotter (libs/plotgl.cpp) and the views that use it: the lattice *)
(* in real and reciprocal space and the Brillouin zone (tools/taz/         *)
(* real3d.cpp, recip3d.cpp, bz3d.cpp).  The GUI thread changes the list of *)
(* objects, one call at a time; a thread of the plotter draws it again and *)
(* again.  m_mutex protects the list, m_mutex_resize the size and the time *)
(* of a frame.  The GUI thread holds a mutex for one call, here one step;  *)
(* SetObjectCount takes none, and the render thread may see half of it.    *)
(*                                                                         *)
(* Left out: the GL calls, the view matrix and the mouse.                  *)
(***************************************************************************)
EXTENDS Naturals, Sequences

CONSTANTS
  NObjs,       \* number of objects of a picture
  MaxPicture,  \* bound: pictures made or changed
  MaxSize      \* bound: sizes the window had

ASSUME GlAssumption == NObjs \in Nat \ {0}

VARIABLES
  view,         \* where the GUI thread is in the making of a picture
  k,            \* the object that comes next
  want,         \* history: the picture that is made, each object by its version
  version,      \* history: number of pictures made so far
  objs,         \* m_vecObjs
  glEnabled,    \* m_bEnabled
  visible,      \* isVisible()
  renderActive, \* m_bRenderThreadActive
  size,         \* m_size, and whether the projection has perspective
  doResize,     \* m_size.bDoResize
  render,       \* where the render thread is
  glsize,       \* the size the render thread has set
  newsize,      \* the size it is setting
  order,        \* the objects it is still to draw, of GetObjSortOrder()
  frame,        \* the objects it has drawn, with their versions
  disabled,     \* history: SetEnabled(0) since it saw m_bEnabled
  shown,        \* history: the last frame that was finished, and its size
  torn          \* history: the list was read while its memory was exchanged

viewvars == <<view, k, want, version>>
framevars == <<order, frame, disabled, shown, torn>>
sizevars == <<size, doResize, glsize, newsize>>
glvars == <<viewvars, objs, glEnabled, visible, renderActive, sizevars, render,
          framevars>>

Blank == 0
HoldsMutex == render = "draw"                          \* m_mutex
HoldsResize == render \in {"resize", "tick", "lock", "draw"}

-----------------------------------------------------------------------------
(* The GUI thread.                                                         *)

GlInit ==
  /\ view = "loop" /\ k = 1 /\ want = <<>> /\ version = 0
  /\ objs = <<>>
  /\ glEnabled = TRUE /\ visible = FALSE /\ renderActive = TRUE
  /\ size = 0 /\ doResize = TRUE
  /\ render = "start" /\ glsize = 0 /\ newsize = 0
  /\ order = {} /\ frame = {} /\ disabled = FALSE
  /\ shown = [objs |-> {}, size |-> 0] /\ torn = FALSE

\* CalcPeaks: a new picture; SetEnabled(0)
NewPicture ==
  /\ view = "loop" /\ version < MaxPicture
  /\ version' = version + 1
  /\ want' = [i \in 1 .. NObjs |-> version']
  /\ glEnabled' = FALSE /\ disabled' = TRUE
  /\ view' = "clear" /\ k' = 1
  /\ UNCHANGED <<objs, visible, renderActive, sizevars, render, order, frame,
                 shown, torn>>

\* RecipParamsChanged: only the object of Q changes; SetEnabled(0)
MoveQ ==
  /\ view = "loop" /\ version < MaxPicture /\ objs # <<>>
  /\ version' = version + 1
  /\ want' = [want EXCEPT ![NObjs] = version']
  /\ glEnabled' = FALSE /\ disabled' = TRUE
  /\ view' = "plot" /\ k' = NObjs
  /\ UNCHANGED <<objs, visible, renderActive, sizevars, render, order, frame,
                 shown, torn>>

\* clear()
ClearObjects ==
  /\ view = "clear" /\ ~HoldsMutex
  /\ objs' = <<>>
  /\ view' = "count"
  /\ UNCHANGED <<k, want, version, glEnabled, visible, renderActive, sizevars,
                 render, framevars>>

\* SetObjectCount() takes no mutex.  A vector without sufficient capacity gets
\* new memory: it has one of the pointers to it ...
GrowList ==
  /\ view = "count"
  /\ view' = "grow"
  /\ UNCHANGED <<k, want, version, objs, glEnabled, visible, renderActive,
                 sizevars, render, framevars>>

\* ... and the other one.
SetObjectCount ==
  /\ view \in {"count", "grow"}
  /\ objs' = [i \in 1 .. NObjs |-> Blank]
  /\ view' = "plot"
  /\ UNCHANGED <<k, want, version, glEnabled, visible, renderActive, sizevars,
                 render, framevars>>

\* PlotSphere, PlotPoly, PlotLines, SetObjectLabel, ...: one object.
Plot ==
  /\ view = "plot" /\ ~HoldsMutex
  /\ objs' = [objs EXCEPT ![k] = want[k]]
  /\ IF k < NObjs THEN k' = k + 1 /\ UNCHANGED view
     ELSE view' = "enable" /\ UNCHANGED k
  /\ UNCHANGED <<want, version, glEnabled, visible, renderActive, sizevars,
                 render, framevars>>

\* SetEnabled(1)
EnablePlot ==
  /\ view = "enable"
  /\ glEnabled' = TRUE
  /\ view' = "loop"
  /\ UNCHANGED <<k, want, version, objs, visible, renderActive, sizevars,
                 render, framevars>>

\* Mutant: the view is shown without SetEnabled(1).
ShowDisabled ==
  /\ view = "loop" /\ ~visible
  /\ visible' = TRUE
  /\ UNCHANGED <<viewvars, objs, glEnabled, renderActive, sizevars, render,
                 framevars>>

\* hideEvent and showEvent of the view
HideView ==
  /\ view = "loop" /\ visible
  /\ visible' = FALSE /\ glEnabled' = FALSE /\ disabled' = TRUE
  /\ UNCHANGED <<viewvars, objs, renderActive, sizevars, render, order, frame,
                 shown, torn>>

ShowView ==
  /\ view = "loop" /\ ~visible
  /\ visible' = TRUE /\ glEnabled' = TRUE
  /\ UNCHANGED <<viewvars, objs, renderActive, sizevars, render, framevars>>

\* Mutant: the new size is set without the mutex.
ResizeUnlocked ==
  /\ view = "loop" /\ size < MaxSize
  /\ size' = size + 1 /\ doResize' = TRUE
  /\ UNCHANGED <<viewvars, objs, glEnabled, visible, renderActive, render,
                 glsize, newsize, framevars>>

\* resizeEvent, TogglePerspective
Resize ==
  /\ view = "loop" /\ size < MaxSize /\ ~HoldsResize
  /\ size' = size + 1 /\ doResize' = TRUE
  /\ UNCHANGED <<viewvars, objs, glEnabled, visible, renderActive, render,
                 glsize, newsize, framevars>>

\* Mutant: the render thread is not told to end.
DestroyActive ==
  /\ view = "loop"
  /\ glEnabled' = FALSE /\ disabled' = TRUE
  /\ view' = "wait"
  /\ UNCHANGED <<k, want, version, objs, visible, renderActive, sizevars,
                 render, order, frame, shown, torn>>

\* ~PlotGl, up to wait()
Destroy ==
  /\ view = "loop"
  /\ glEnabled' = FALSE /\ disabled' = TRUE
  /\ renderActive' = FALSE
  /\ view' = "wait"
  /\ UNCHANGED <<k, want, version, objs, visible, sizevars, render, order,
                 frame, shown, torn>>

\* ... wait() returns
Wait ==
  /\ view = "wait" /\ render = "ended"
  /\ view' = "gone"
  /\ UNCHANGED <<k, want, version, objs, glEnabled, visible, renderActive,
                 sizevars, render, framevars>>

-----------------------------------------------------------------------------
(* The render thread: run().                                               *)

\* Without a valid GL context there is nothing to do.
StartRender ==
  /\ render = "start"
  /\ render' \in {"loop", "ended"}
  /\ UNCHANGED <<viewvars, objs, glEnabled, visible, renderActive, sizevars,
                 framevars>>

\* while(m_bRenderThreadActive), if(m_size.bDoResize): waits for the mutex
RenderLoop ==
  /\ render = "loop"
  /\ IF ~renderActive THEN render' = "free" /\ UNCHANGED newsize
     ELSE IF doResize THEN render' = "resize" /\ newsize' = size
     ELSE render' = "visible" /\ UNCHANGED newsize
  /\ UNCHANGED <<viewvars, objs, glEnabled, visible, renderActive, size,
                 doResize, glsize, framevars>>

\* resizeGLThread, then the request is taken back
ResizeGL ==
  /\ render = "resize"
  /\ glsize' = newsize /\ doResize' = FALSE
  /\ render' = "visible"
  /\ UNCHANGED <<viewvars, objs, glEnabled, visible, renderActive, size,
                 newsize, framevars>>

\* The list can be read: its pointers belong together.
Whole == view # "grow"

\* if(isVisible()): a frame begins, tickThread
Tick ==
  /\ render = "visible" /\ (Whole \/ ~visible)
  /\ render' = IF visible THEN "tick" ELSE "loop"
  /\ UNCHANGED <<viewvars, objs, glEnabled, visible, renderActive, sizevars,
                 framevars>>

\* Mutant: a disabled plotter draws.
PaintAlways ==
  /\ render = "tick"
  /\ disabled' = FALSE
  /\ render' = "lock"
  /\ UNCHANGED <<viewvars, objs, glEnabled, visible, renderActive, sizevars,
                 order, frame, shown, torn>>

\* paintGLThread, up to the test of m_bEnabled
TestEnabled ==
  /\ render = "tick"
  /\ disabled' = FALSE
  /\ render' = IF glEnabled THEN "lock" ELSE "loop"
  /\ UNCHANGED <<viewvars, objs, glEnabled, visible, renderActive, sizevars,
                 order, frame, shown, torn>>

\* ... m_mutex is locked, and the objects are sorted
SortObjects ==
  /\ render = "lock" /\ Whole
  /\ order' = DOMAIN objs /\ frame' = {}
  /\ render' = "draw"
  /\ UNCHANGED <<viewvars, objs, glEnabled, visible, renderActive, sizevars,
                 disabled, shown, torn>>

\* ... the next object is drawn, if there still is one with this index
DrawObject ==
  /\ render = "draw"
  /\ \E i \in order :
       /\ order' = order \ {i}
       /\ frame' = frame \union {<<i, objs[n]>> : n \in {i} \intersect DOMAIN objs}
  /\ UNCHANGED <<viewvars, objs, glEnabled, visible, renderActive, sizevars,
                 render, disabled, shown, torn>>

\* ... all are drawn, the mutexes are released
EndFrame ==
  /\ render = "draw" /\ order = {}
  /\ render' = "loop"
  /\ shown' = [objs |-> frame, size |-> glsize]
  /\ UNCHANGED <<viewvars, objs, glEnabled, visible, renderActive, sizevars,
                 order, frame, disabled, torn>>

\* freeGLThread
Free ==
  /\ render = "free"
  /\ glEnabled' = FALSE /\ disabled' = TRUE
  /\ render' = "ended"
  /\ UNCHANGED <<viewvars, objs, visible, renderActive, sizevars, order,
                 frame, shown, torn>>

-----------------------------------------------------------------------------
(* The race: tickThread or GetObjSortOrder reads a pointer to new memory   *)
(* and one to old memory, so that the number of objects is any.            *)

\* The program ends, with an exception or by reading beyond the memory,
Abort ==
  /\ view' = "gone" /\ render' = "ended"
  /\ UNCHANGED <<order, frame>>

\* ... or goes on, and draws the objects with these numbers if they exist.
TornRead ==
  /\ ~Whole
  /\ torn' = TRUE
  /\ \/ render = "visible" /\ visible
        /\ \/ Abort
           \/ render' = "tick" /\ UNCHANGED <<view, order, frame>>
     \/ render = "lock"
        /\ \/ Abort
           \/ /\ render' = "draw" /\ frame' = {} /\ UNCHANGED view
              /\ \E n \in 0 .. NObjs : order' = 1 .. n
  /\ UNCHANGED <<k, want, version, objs, glEnabled, visible, renderActive,
                 sizevars, disabled, shown>>

-----------------------------------------------------------------------------

ViewWork ==
  ClearObjects \/ GrowList \/ SetObjectCount \/ Plot \/ EnablePlot \/ Wait
ViewUser == NewPicture \/ MoveQ \/ HideView \/ ShowView \/ Resize \/ Destroy
Render ==
  \/ StartRender \/ RenderLoop \/ ResizeGL \/ Tick \/ TestEnabled \/ SortObjects
  \/ DrawObject \/ EndFrame \/ Free

\* The plotter is gone, and its thread has ended.
Gone == view = "gone" /\ UNCHANGED glvars

GlNext == ViewWork \/ ViewUser \/ Render \/ TornRead \/ Gone

\* Both threads go on; a wait for a mutex ends if it is free again and again.
GlFairness == SF_glvars(ViewWork) /\ WF_glvars(Render)

GlSpec == GlInit /\ [][GlNext]_glvars /\ GlFairness

-----------------------------------------------------------------------------

(***************************************************************************)
(* A frame shows a complete picture: the objects it has drawn are those of *)
(* the picture in force when it found the plotter enabled.  Only a frame   *)
(* that had found it enabled before SetEnabled(0) may show an unfinished   *)
(* one.                                                                    *)
(***************************************************************************)
PictureComplete ==
  render = "draw" /\ ~disabled =>
    frame = {<<i, want[i]>> : i \in DOMAIN want \ order}

(***************************************************************************)
(* As long as a frame still has objects to draw, the list it draws them    *)
(* from is not changed, although SetObjectCount takes no mutex: clear(),   *)
(* before it, waits for the frame to end, and one that begins after it     *)
(* finds no objects.  A frame that has read a torn list is excepted.       *)
(***************************************************************************)
DrawnUndisturbed ==
  [][render = "draw" /\ render' = "draw" /\ order # {} /\ ~torn => objs' = objs]_glvars

(***************************************************************************)
(* A size the window has had last is set, however often it changes: when   *)
(* no request is underway, the size in GL is that of the window.  The      *)
(* destructor ends.                                                        *)
(***************************************************************************)
ResizeKept == ~doResize => glsize = size

RenderServes ==
  /\ (doResize /\ render # "start")
       ~> (~doResize \/ render = "ended" \/ ~renderActive)
  /\ (view = "wait") ~> (view = "gone")

(***************************************************************************)
(* Once the user leaves a visible view alone, it shows, for good, what it  *)
(* should: all objects of the last picture, in the last size, whatever     *)
(* frames were begun or left out while the picture was made.               *)
(***************************************************************************)
Wanted == [objs |-> {<<i, want[i]>> : i \in DOMAIN want}, size |-> size]
PictureShown ==
  <>[](view = "loop" /\ visible) => <>[](render = "ended" \/ shown = Wanted)

-----------------------------------------------------------------------------
(* The inductive invariant of Threads_proofs.                              *)

\* The objects before the k-th are those of the picture that is made; when it
\* is complete, all are.
PictureInv ==
  /\ version \in Nat
  /\ want = <<>> \/ want \in [1 .. NObjs -> Nat]
  /\ view \in {"clear", "count", "grow", "plot", "enable"} =>
       want \in [1 .. NObjs -> Nat] /\ k \in 1 .. NObjs
  /\ view \in {"clear", "count", "grow"} => k = 1
  /\ view = "plot" => /\ objs \in [1 .. NObjs -> Nat]
                      /\ \A i \in 1 .. NObjs : i < k => objs[i] = want[i]
  /\ view \in {"loop", "enable"} => objs = want

\* The plotter is enabled only with a complete picture, and a frame that found
\* it enabled knows if it is not any more.
FrameInv ==
  /\ glEnabled => view = "loop"
  /\ render \in {"lock", "draw"} /\ ~disabled => glEnabled
  /\ render = "draw" /\ ~disabled => order \subseteq DOMAIN want
  /\ PictureComplete

\* A list that gets its number of objects is empty, and so is the rest of a
\* frame that draws it.
CountInv ==
  view \in {"count", "grow"} =>
    /\ objs = <<>>
    /\ render = "draw" /\ ~torn => order = {}

SizeInv ==
  /\ render = "resize" => newsize = size
  /\ ResizeKept

GlIInv == PictureInv /\ FrameInv /\ CountInv /\ SizeInv

=============================================================================
