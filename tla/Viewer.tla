------------------------------- MODULE Viewer -------------------------------
(***************************************************************************)
(* The viewer: App_new and App_run in src/app.cpp, with the events of      *)
(* src/main/main_linux.cpp.                                                *)
(*                                                                         *)
(* The window system and the user run beside the application: they change  *)
(* the window at any time and queue an event.  Each turn of the loop of    *)
(* App_run reads all queued events and, unless one was a resize, draws and *)
(* presents a frame.  Only one of the two axes of the window is modelled,  *)
(* lengths are in pixels, and the scale of an image is the exponent of     *)
(* 1.05.                                                                   *)
(***************************************************************************)
EXTENDS Integers, Sequences, FiniteSets

CONSTANTS
    NumImages,      \* number of file arguments
    Heights,        \* heights the window can take
    ImageCounts,    \* image counts the driver may give a swapchain
    Sizes,          \* sizes of decoded images
    AtomSize,       \* nonCoherentAtomSize
    StagingSize,    \* staging_buffer_size
    MaxInputs       \* bound on what the user does

ASSUME ViewerAssumption ==
    /\ NumImages \in Nat \ {0}
    /\ Heights \subseteq Nat /\ Heights # {}
    /\ ImageCounts \subseteq Nat \ {0} /\ ImageCounts # {}
    /\ Sizes \subseteq Nat \ {0} /\ Sizes # {}
    /\ AtomSize \in Nat \ {0}
    /\ StagingSize \in Nat
    /\ MaxInputs \in Nat

Images == 0 .. NumImages - 1
Positions == 0 .. 1

VARIABLES
    surface,            \* height of the window
    queue,              \* events the application has not read
    held,               \* is the left button down?
    inputs,             \* how much the user has done
    pc,                 \* where the application is
    render_area_height,
    swapchain,          \* height and number of images
    framebuffers,       \* how many swapchain_framebuffers there are
    stray,              \* framebuffers leaked, or destroyed without existing
    image_size,         \* size of each decoded image
    image_view_data, gpu_view_data,     \* on the CPU, and its copy
    current_image_index,
    title,              \* image named in the window title
    left_button_down_y,
    window_height,      \* read at the start of the turn
    window_has_been_resized,
    window_should_close,
    quadmesh,           \* has it been uploaded?
    staged              \* offset of each image in the staging buffer, or -1

window == <<surface, queue, held, inputs>>
chain == <<swapchain, framebuffers, stray>>
view == <<image_view_data, gpu_view_data, left_button_down_y>>
choice == <<current_image_index, title>>
turn == <<window_height, window_has_been_resized, window_should_close>>
upload == <<image_size, quadmesh, staged>>
vars == <<window, pc, render_area_height, chain, view, choice, turn, upload>>

NotStaged == -1
RoundUp(n) == ((n + AtomSize - 1) \div AtomSize) * AtomSize

InitialView(h) == [scale |-> 0, offset |-> 0, window |-> h]

-----------------------------------------------------------------------------
(***************************************************************************)
(* The user and the window system                                          *)
(***************************************************************************)

Running == pc \notin {"exited", "out of date", "out of staging", "crashed"}

Input(event) ==
    /\ Running
    /\ inputs < MaxInputs
    /\ inputs' = inputs + 1
    /\ queue' = Append(queue, event)
    /\ UNCHANGED <<pc, render_area_height, chain, view, choice, turn, upload>>

Press(y) == Input([type |-> "press", y |-> y]) /\ held' = TRUE /\ UNCHANGED surface

Release == held /\ Input([type |-> "release"]) /\ held' = FALSE /\ UNCHANGED surface

Move(y) ==
    /\ Input([type |-> "move", y |-> y, left |-> held])
    /\ UNCHANGED <<held, surface>>

Key(k) == Input([type |-> "key", key |-> k]) /\ UNCHANGED <<held, surface>>

Scroll(d) == Input([type |-> "scroll", by |-> d]) /\ UNCHANGED <<held, surface>>

\* The window is resized, or moved or mapped, of which the front end makes the
\* same event.
Resize(h) ==
    /\ Input([type |-> "resized"])
    /\ surface' = h
    /\ UNCHANGED held

Close == Input([type |-> "close"]) /\ UNCHANGED <<held, surface>>

User ==
    \/ \E y \in Positions : Press(y) \/ Move(y)
    \/ Release
    \/ \E k \in {"right", "left", "R", "other"} : Key(k)
    \/ \E d \in {-1, 1} : Scroll(d)
    \/ \E h \in Heights : Resize(h)
    \/ Close

-----------------------------------------------------------------------------
(***************************************************************************)
(* The swapchain                                                           *)
(***************************************************************************)

\* App_create_swapchain when app->render_pass exists.  num_swapchain_images is
\* the new count already when the old framebuffers are destroyed.
CreateSwapchain ==
    \E n \in ImageCounts :
        /\ swapchain' = [height |-> surface, images |-> n]
        /\ stray' = stray + IF framebuffers = 0 THEN 0 ELSE framebuffers - n
        /\ framebuffers' = n

\* App_new makes a swapchain, and another one once it has a render pass.
Init ==
    /\ surface \in Heights
    /\ queue = <<>>
    /\ held = FALSE
    /\ inputs = 0
    /\ pc = "start"
    /\ render_area_height = surface
    /\ swapchain \in [height : {surface}, images : ImageCounts]
    /\ framebuffers = 0
    /\ stray = 0
    /\ image_size \in [Images -> Sizes]
    /\ image_view_data = [i \in Images |-> InitialView(surface)]
    /\ gpu_view_data = image_view_data
    /\ current_image_index = 0
    /\ title = 0
    /\ left_button_down_y = 0
    /\ window_height = 0
    /\ window_has_been_resized = FALSE
    /\ window_should_close = FALSE
    /\ quadmesh = FALSE
    /\ staged = [i \in Images |-> NotStaged]

\* The rest of App_new, and App_run up to its loop.  Parsing the images takes
\* time, in which the user may already act.
Start ==
    /\ pc = "start"
    /\ CreateSwapchain
    /\ pc' = "load"
    /\ UNCHANGED <<window, render_area_height, view, choice, turn, upload>>

Load ==
    /\ pc = "load"
    /\ image_view_data' = [i \in Images |-> InitialView(render_area_height)]
    /\ gpu_view_data' = image_view_data'
    /\ left_button_down_y' = 0
    /\ pc' = "turn"
    /\ UNCHANGED <<window, render_area_height, chain, choice, turn, upload>>

-----------------------------------------------------------------------------
(***************************************************************************)
(* A turn of the loop: the events                                          *)
(***************************************************************************)

\* Mutant: the turn forgets that the window was closed.
ForgetfulTurn ==
    /\ pc = "turn"
    /\ window_height' = render_area_height
    /\ window_has_been_resized' = FALSE
    /\ window_should_close' = FALSE
    /\ pc' = IF window_should_close /\ ~window_has_been_resized
             THEN "shutdown" ELSE "events"
    /\ UNCHANGED <<window, render_area_height, chain, view, choice, upload>>

StartTurn ==
    /\ pc = "turn"
    /\ IF window_should_close
       THEN pc' = "shutdown" /\ UNCHANGED turn
       ELSE /\ window_height' = render_area_height
            /\ window_has_been_resized' = FALSE
            /\ UNCHANGED window_should_close
            /\ pc' = "events"
    /\ UNCHANGED <<window, render_area_height, chain, view, choice, upload>>

\* App_get_input_event: the next event, which is of the given type.
Read(type) ==
    /\ pc = "events"
    /\ queue # <<>>
    /\ Head(queue).type = type
    /\ queue' = Tail(queue)
    /\ UNCHANGED <<surface, held, inputs, pc, upload>>

\* The window's y axis points down, that of the images up.
Upwards(y) == render_area_height - y

\* GpuCpuDataReference_update of the images in S.
Update(S) ==
    gpu_view_data' = [i \in Images |-> IF i \in S THEN image_view_data'[i]
                                                  ELSE gpu_view_data[i]]

\* Mutant: no wrap after the last image.
NextImageUnwrapped(k) ==
    CASE k = "right" -> current_image_index + 1
      [] k = "left"  -> (current_image_index + NumImages - 1) % NumImages
      [] OTHER       -> current_image_index

NextImage(k) ==
    CASE k = "right" -> (current_image_index + 1) % NumImages
      [] k = "left"  -> (current_image_index + NumImages - 1) % NumImages
      [] OTHER       -> current_image_index

HandleKey ==
    /\ Read("key")
    /\ LET k == Head(queue).key IN
       /\ current_image_index' = NextImage(k)
       /\ IF k = "R"
          THEN /\ image_view_data' =
                      [i \in Images |-> InitialView(image_view_data[i].window)]
               /\ Update(Images)
          ELSE UNCHANGED <<image_view_data, gpu_view_data>>
    /\ title' = current_image_index'
    /\ UNCHANGED <<render_area_height, chain, left_button_down_y, turn>>

HandlePress ==
    /\ Read("press")
    /\ left_button_down_y' = Upwards(Head(queue).y)
    /\ UNCHANGED <<render_area_height, chain, image_view_data, gpu_view_data,
                   choice, turn>>

HandleMove ==
    /\ Read("move")
    /\ LET y == Upwards(Head(queue).y) IN
       IF Head(queue).left
       THEN /\ image_view_data' = [image_view_data EXCEPT
                   ![current_image_index].offset = @ + left_button_down_y - y]
            /\ left_button_down_y' = y
            /\ Update({current_image_index})
       ELSE UNCHANGED view
    /\ UNCHANGED <<render_area_height, chain, choice, turn>>

HandleScroll ==
    /\ Read("scroll")
    /\ image_view_data' =
           [image_view_data EXCEPT ![current_image_index].scale = @ + Head(queue).by]
    /\ Update({current_image_index})
    /\ UNCHANGED <<render_area_height, chain, left_button_down_y, choice, turn>>

\* Mutant: one new swapchain in a turn is enough.
ResizeOnce ==
    /\ Read("resized")
    /\ IF window_has_been_resized
       THEN UNCHANGED <<chain, render_area_height, image_view_data, gpu_view_data>>
       ELSE /\ CreateSwapchain
            /\ render_area_height' = swapchain'.height
            /\ image_view_data' = [i \in Images |->
                   [image_view_data[i] EXCEPT !.window = render_area_height']]
            /\ Update(Images)
    /\ window_has_been_resized' = TRUE
    /\ UNCHANGED <<left_button_down_y, choice, window_height, window_should_close>>

HandleResize ==
    /\ Read("resized")
    /\ CreateSwapchain
    /\ render_area_height' = swapchain'.height
    /\ image_view_data' = [i \in Images |->
           [image_view_data[i] EXCEPT !.window = render_area_height']]
    /\ Update(Images)
    /\ window_has_been_resized' = TRUE
    /\ UNCHANGED <<left_button_down_y, choice, window_height, window_should_close>>

HandleClose ==
    /\ Read("close")
    /\ window_should_close' = TRUE
    /\ UNCHANGED <<render_area_height, chain, view, choice, window_height,
                   window_has_been_resized>>

HandleRelease ==
    /\ Read("release")
    /\ UNCHANGED <<render_area_height, chain, view, choice, turn>>

\* Mutant: draw in the turn of a resize, too.
DrawResized ==
    /\ pc = "events"
    /\ queue = <<>>
    /\ pc' = "acquire"
    /\ UNCHANGED <<window, render_area_height, chain, view, choice, turn, upload>>

\* No event is left; what was read from the window is old after a resize.
EndEvents ==
    /\ pc = "events"
    /\ queue = <<>>
    /\ pc' = IF window_has_been_resized THEN "turn" ELSE "acquire"
    /\ UNCHANGED <<window, render_area_height, chain, view, choice, turn, upload>>

-----------------------------------------------------------------------------
(***************************************************************************)
(* A turn of the loop: the frame                                           *)
(***************************************************************************)

\* The window system may refuse a swapchain that no longer fits the window.
UseSwapchain(next) ==
    \/ pc' = next
    \/ swapchain.height # surface /\ pc' = "out of date"

Acquire ==
    /\ pc = "acquire"
    /\ UseSwapchain("draw")
    /\ UNCHANGED <<window, render_area_height, chain, view, choice, turn, upload>>

\* Mutant: the occupied size is not rounded up as the copied size is.
UnroundedOffset[i \in 0 .. NumImages] ==
    IF i = 0 THEN 0 ELSE UnroundedOffset[i - 1] + image_size[i - 1]
OffsetUnrounded(i) == UnroundedOffset[i]

\* staging_buffer_size_occupied after the first i images.
Occupied[i \in 0 .. NumImages] ==
    IF i = 0 THEN 0 ELSE Occupied[i - 1] + RoundUp(image_size[i - 1])
Offset(i) == Occupied[i]

\* Record and submit the commands; the first frame uploads the mesh and the
\* images, all of them before a command of the frame is executed.
Draw ==
    /\ pc = "draw"
    /\ IF quadmesh THEN pc' = "present" /\ UNCHANGED upload
       ELSE /\ quadmesh' = TRUE
            /\ UNCHANGED image_size
            /\ IF Offset(NumImages) > StagingSize
               THEN pc' = "out of staging" /\ UNCHANGED staged
               ELSE pc' = "present" /\ staged' = [i \in Images |-> Offset(i)]
    /\ UNCHANGED <<window, render_area_height, chain, view, choice, turn>>

Present ==
    /\ pc = "present"
    /\ UseSwapchain("turn")
    /\ UNCHANGED <<window, render_area_height, chain, view, choice, turn, upload>>

\* App_destroy_mesh reads through quadmesh.
Shutdown ==
    /\ pc = "shutdown"
    /\ pc' = IF quadmesh THEN "exited" ELSE "crashed"
    /\ UNCHANGED <<window, render_area_height, chain, view, choice, turn, upload>>

Ended == ~Running /\ UNCHANGED vars

-----------------------------------------------------------------------------

Application ==
    \/ Start \/ Load \/ StartTurn
    \/ HandleKey \/ HandlePress \/ HandleMove \/ HandleScroll
    \/ HandleResize \/ HandleClose \/ HandleRelease
    \/ EndEvents \/ Acquire \/ Draw \/ Present
    \/ Shutdown

Next == User \/ Application \/ Ended

Spec == Init /\ [][Next]_vars

\* The application runs; nobody has to use it.  MaxInputs keeps the user from
\* filling the queue for ever, in which case a turn would not end.
FairSpec == Spec /\ WF_vars(Application)

-----------------------------------------------------------------------------
(***************************************************************************)
(* Properties                                                              *)
(***************************************************************************)

Events ==
    [type : {"press"}, y : Positions]
        \cup [type : {"move"}, y : Positions, left : BOOLEAN]
        \cup [type : {"key"}, key : {"right", "left", "R", "other"}]
        \cup [type : {"scroll"}, by : {-1, 1}]
        \cup [type : {"release", "resized", "close"}]

\* Every variable has its type.
TypeOK ==
    /\ surface \in Heights /\ render_area_height \in Heights
    /\ queue \in Seq(Events)
    /\ held \in BOOLEAN
    /\ inputs \in 0 .. MaxInputs
    /\ pc \in {"start", "load", "turn", "events", "acquire", "draw", "present",
               "shutdown", "exited", "out of date", "out of staging", "crashed"}
    /\ swapchain \in [height : Heights, images : ImageCounts]
    /\ framebuffers \in ImageCounts \cup {0}
    /\ stray \in Int
    /\ image_size \in [Images -> Sizes]
    /\ image_view_data \in [Images -> [scale : Int, offset : Int, window : Heights]]
    /\ gpu_view_data \in [Images -> [scale : Int, offset : Int, window : Heights]]
    /\ current_image_index \in Images /\ title \in Images
    /\ left_button_down_y \in Int
    /\ window_height \in Heights \cup {0}
    /\ window_has_been_resized \in BOOLEAN /\ window_should_close \in BOOLEAN
    /\ quadmesh \in BOOLEAN
    /\ staged \in [Images -> Nat \cup {NotStaged}]

\* What a frame is made from is consistent: the viewport, the render area and
\* all aspect ratios are those of the swapchain, the GPU has the view data the
\* events asked for, and the title names the image that is drawn.
FrameUpToDate ==
    pc \in {"acquire", "draw", "present"} =>
        /\ window_height = swapchain.height
        /\ render_area_height = swapchain.height
        /\ gpu_view_data = image_view_data
        /\ \A i \in Images : image_view_data[i].window = swapchain.height
        /\ title = current_image_index

\* The images' places in the staging buffer, which the GPU reads only after
\* all of them were written, do not overlap and are inside the buffer.
StagedApart ==
    \A i \in Images : staged[i] # NotStaged =>
        /\ staged[i] + RoundUp(image_size[i]) <= StagingSize
        /\ \A j \in Images \ {i} :
              \/ staged[j] + RoundUp(image_size[j]) <= staged[i]
              \/ staged[i] + RoundUp(image_size[i]) <= staged[j]

\* A frame is only drawn with framebuffers for the images of the swapchain,
\* and no framebuffer outlives the swapchain it was made for.
FramebuffersRecreated ==
    pc # "start" => framebuffers = swapchain.images /\ stray = 0

\* The main loop runs until the window is closed, or the images do not fit.
RunsUntilClosed ==
    pc \notin {"out of date", "crashed"} \/ window_should_close

\* Closing the window ends with the application's resources freed.
ClosesCleanly == pc # "crashed"

\* Closing the window ends the application.
CloseIsHonoured ==
    (\E n \in DOMAIN queue : queue[n].type = "close") ~> ~Running

\* Once the user leaves the window alone the swapchain has its size.
SwapchainCatchesUp == <>[](Running => swapchain.height = surface)

=============================================================================
