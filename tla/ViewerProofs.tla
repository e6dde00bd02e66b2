---------------------------- MODULE ViewerProofs ----------------------------
(***************************************************************************)
(* Proofs about Viewer, for any number of images, any sizes, any heights   *)
(* of the window, any number of swapchain images and any inputs.           *)
(***************************************************************************)
EXTENDS Viewer, BasicProofs

-----------------------------------------------------------------------------
(***************************************************************************)
(* The inductive invariant                                                 *)
(***************************************************************************)

\* Is there a resize the application has not read?
HasResize == \E n \in DOMAIN queue : queue[n].type = "resized"

\* The swapchain differs from the window, or the render area from the swapchain,
\* only until an event in the queue is read.
ResizeInv ==
    /\ surface # swapchain.height => HasResize
    /\ render_area_height # swapchain.height => HasResize
    /\ pc \in {"start", "acquire", "draw", "present"} =>
           render_area_height = swapchain.height

\* What was read from the window at the start of the turn is right, unless the
\* turn will be cut short.
TurnInv ==
    /\ pc = "events" => window_has_been_resized \/ window_height = render_area_height
    /\ pc \in {"acquire", "draw", "present"} => window_height = render_area_height

\* The copies agree.
ViewInv ==
    /\ gpu_view_data = image_view_data
    /\ \A i \in Images : image_view_data[i].window = render_area_height
    /\ title = current_image_index

IInv == TypeOK /\ ResizeInv /\ TurnInv /\ ViewInv /\ StagedApart

Views == [scale : Int, offset : Int, window : Heights]

-----------------------------------------------------------------------------
(***************************************************************************)
(* The staging buffer                                                      *)
(***************************************************************************)

\* Sizes are rounded up to numbers.
LEMMA Rounded ==
    ASSUME NEW n \in Nat
    PROVE  RoundUp(n) \in Nat
<1>1. n + AtomSize - 1 \in Nat /\ AtomSize \in Nat \ {0}
  BY ViewerAssumption
<1>2. PICK m \in Nat : m = n + AtomSize - 1
  BY <1>1
<1>3. m \div AtomSize \in Nat
  BY <1>1, <1>2
<1> QED
  BY <1>1, <1>2, <1>3 DEF RoundUp

\* staging_buffer_size_occupied is the sum of what was rounded up before.
LEMMA OccupiedDefinition ==
    Occupied = [i \in 0 .. NumImages |->
                   IF i = 0 THEN 0 ELSE Occupied[i - 1] + RoundUp(image_size[i - 1])]
<1> DEFINE Adds(f, n) ==
               f = [i \in 0 .. n |->
                       IF i = 0 THEN 0 ELSE f[i - 1] + RoundUp(image_size[i - 1])]
           S == {n \in Nat : \E f : Adds(f, n)}
<1>1. 0 \in S
  <2>1. Adds([i \in 0 .. 0 |-> 0], 0)
    OBVIOUS
  <2> QED
    BY <2>1
<1>2. ASSUME NEW n \in S
      PROVE  n + 1 \in S
  <2>1. PICK f : Adds(f, n)
    OBVIOUS
  <2>2. n \in Nat
    OBVIOUS
  <2> DEFINE g == [i \in 0 .. n + 1 |->
                      IF i = n + 1 THEN f[n] + RoundUp(image_size[n]) ELSE f[i]]
  <2>3. ASSUME NEW i \in 0 .. n + 1
        PROVE  g[i] = IF i = 0 THEN 0 ELSE g[i - 1] + RoundUp(image_size[i - 1])
    <3>1. CASE i \in 0 .. n
      BY <2>1, <2>2, <3>1
    <3>2. CASE i = n + 1
      <4>1. i # 0 /\ i - 1 = n /\ n \in 0 .. n + 1 /\ n # n + 1
        BY <2>2, <3>2
      <4>2. g[n] = f[n] /\ g[i] = f[n] + RoundUp(image_size[n])
        BY <2>2, <3>2, <4>1
      <4> QED
        BY <4>1, <4>2
    <3> QED
      BY <2>2, <3>1, <3>2
  <2>4. Adds(g, n + 1)
    <3>1. g = [i \in 0 .. n + 1 |-> g[i]]
      OBVIOUS
    <3> HIDE DEF g
    <3> QED
      BY <2>3, <3>1
  <2> HIDE DEF g, Adds
  <2> QED
    BY <2>2, <2>4
<1>3. S = Nat
  <2> HIDE DEF Adds
  <2>1. S \in SUBSET Nat
    OBVIOUS
  <2> HIDE DEF S
  <2> QED
    BY <1>1, <1>2, <2>1, SetInduction
<1>4. \E f : Adds(f, NumImages)
  BY <1>3, ViewerAssumption
<1> QED
  BY <1>4 DEF Occupied

LEMMA OccupiedGrows ==
    ASSUME TypeOK
    PROVE  /\ \A i \in 0 .. NumImages : Occupied[i] \in Nat
           /\ \A i \in Images : Occupied[i] + RoundUp(image_size[i]) = Occupied[i + 1]
           /\ \A j \in 0 .. NumImages : \A i \in 0 .. j : Occupied[i] <= Occupied[j]
<1>1. NumImages \in Nat /\ Sizes \subseteq Nat
  BY ViewerAssumption
<1>2. Occupied[0] = 0
  BY <1>1, OccupiedDefinition
<1>3. \A i \in Images : Occupied[i + 1] = Occupied[i] + RoundUp(image_size[i])
  <2>1. ASSUME NEW i \in Images
        PROVE  Occupied[i + 1] = Occupied[i] + RoundUp(image_size[i])
    <3>1. i + 1 \in 0 .. NumImages /\ i + 1 # 0 /\ (i + 1) - 1 = i
      BY <1>1 DEF Images
    <3> QED
      BY <3>1, OccupiedDefinition
  <2> QED
    BY <2>1
<1>4. \A i \in Images : RoundUp(image_size[i]) \in Nat
  <2>1. image_size \in [Images -> Sizes]
    BY DEF TypeOK
  <2>2. \A i \in Images : image_size[i] \in Nat
    BY <1>1, <2>1
  <2> QED
    BY <2>2, Rounded
<1> DEFINE S == {n \in Nat : n <= NumImages =>
                     \A i \in 0 .. n : Occupied[i] \in Nat /\ Occupied[i] <= Occupied[n]}
<1>5. 0 \in S
  BY <1>2
<1>6. ASSUME NEW n \in S
      PROVE  n + 1 \in S
  <2>1. SUFFICES ASSUME n + 1 <= NumImages
                 PROVE  \A i \in 0 .. n + 1 :
                            Occupied[i] \in Nat /\ Occupied[i] <= Occupied[n + 1]
    OBVIOUS
  <2>2. /\ n \in Images /\ Occupied[n] \in Nat
        /\ \A i \in 0 .. n : Occupied[i] \in Nat /\ Occupied[i] <= Occupied[n]
    BY <1>1, <2>1 DEF Images
  <2>3. PICK r \in Nat : Occupied[n + 1] = Occupied[n] + r
    BY <1>3, <1>4, <2>2
  <2>4. ASSUME NEW i \in 0 .. n + 1
        PROVE  Occupied[i] \in Nat /\ Occupied[i] <= Occupied[n + 1]
    <3>1. CASE i = n + 1
      BY <2>2, <2>3, <3>1
    <3>2. CASE i # n + 1
      <4>1. i \in 0 .. n
        BY <3>2
      <4>2. Occupied[i] \in Nat /\ Occupied[i] <= Occupied[n]
        BY <2>2, <4>1
      <4> QED
        BY <2>2, <2>3, <4>2
    <3> QED
      BY <3>1, <3>2
  <2> QED
    BY <2>2, <2>3, <2>4
<1>7. S = Nat
  <2>1. S \in SUBSET Nat
    OBVIOUS
  <2> HIDE DEF S
  <2> QED
    BY <1>5, <1>6, <2>1, SetInduction
<1>8. ASSUME NEW n \in 0 .. NumImages
      PROVE  Occupied[n] \in Nat /\ \A i \in 0 .. n : Occupied[i] <= Occupied[n]
  <2>1. n \in S /\ n <= NumImages
    BY <1>1, <1>7
  <2> QED
    BY <2>1
<1> QED
  BY <1>3, <1>8

\* The places of the images follow each other.
LEMMA OffsetsApart ==
    ASSUME TypeOK, Offset(NumImages) <= StagingSize
    PROVE  \A i \in Images :
               /\ Offset(i) \in Nat
               /\ Offset(i) + RoundUp(image_size[i]) <= StagingSize
               /\ \A j \in Images \ {i} :
                      \/ Offset(j) + RoundUp(image_size[j]) <= Offset(i)
                      \/ Offset(i) + RoundUp(image_size[i]) <= Offset(j)
<1>1. NumImages \in Nat /\ StagingSize \in Nat
  BY ViewerAssumption
<1>2. /\ \A i \in Images : i \in 0 .. NumImages /\ i + 1 \in 0 .. NumImages
      /\ NumImages \in 0 .. NumImages
  BY <1>1 DEF Images
<1>3. \A i \in Images : Offset(i) \in Nat /\ Offset(i) + RoundUp(image_size[i]) = Offset(i + 1)
  BY <1>2, OccupiedGrows DEF Offset
<1>4. ASSUME NEW i \in Images, NEW j \in Images, i < j
      PROVE  Offset(i + 1) <= Offset(j)
  <2>1. i + 1 \in 0 .. j
    BY <1>1, <1>4 DEF Images
  <2> QED
    BY <1>2, <2>1, OccupiedGrows DEF Offset
<1>5. ASSUME NEW i \in Images
      PROVE  Offset(i + 1) <= StagingSize
  <2>1. /\ i + 1 \in 0 .. NumImages /\ NumImages \in 0 .. NumImages
        /\ Offset(i + 1) \in Nat /\ Offset(NumImages) \in Nat
    BY <1>2, OccupiedGrows DEF Offset
  <2>2. Offset(i + 1) <= Offset(NumImages)
    BY <2>1, OccupiedGrows DEF Offset
  <2> QED
    BY <1>1, <2>1, <2>2
<1>6. \A i, j \in Images : i # j => i < j \/ j < i
  BY DEF Images
<1> QED
  BY <1>3, <1>4, <1>5, <1>6

-----------------------------------------------------------------------------
(***************************************************************************)
(* The queue                                                               *)
(***************************************************************************)

\* A new event hides no resize, and may be one.
LEMMA Appended ==
    ASSUME queue \in Seq(Events), NEW e \in Events, queue' = Append(queue, e)
    PROVE  /\ queue' \in Seq(Events)
           /\ HasResize => HasResize'
           /\ e.type = "resized" => HasResize'
<1>1. /\ queue' \in Seq(Events) /\ Len(queue) \in Nat
      /\ DOMAIN queue = 1 .. Len(queue) /\ DOMAIN queue' = 1 .. Len(queue) + 1
      /\ \A n \in 1 .. Len(queue) : queue'[n] = queue[n]
      /\ queue'[Len(queue) + 1] = e
  BY AppendProperties
<1>2. HasResize => HasResize'
  BY <1>1 DEF HasResize
<1>3. e.type = "resized" => HasResize'
  BY <1>1 DEF HasResize
<1> QED
  BY <1>1, <1>2, <1>3

\* Reading another event leaves every resize in the queue.
LEMMA ReadProperties ==
    ASSUME TypeOK, NEW type, Read(type)
    PROVE  /\ Head(queue) \in Events /\ Head(queue).type = type
           /\ queue' \in Seq(Events)
           /\ pc = "events" /\ UNCHANGED <<surface, held, inputs, pc, upload>>
           /\ type # "resized" /\ HasResize => HasResize'
<1>1. /\ pc = "events" /\ queue # <<>> /\ Head(queue).type = type
      /\ queue' = Tail(queue) /\ UNCHANGED <<surface, held, inputs, pc, upload>>
  BY DEF Read
<1>2. queue \in Seq(Events)
  BY DEF TypeOK
<1>3. /\ Head(queue) \in Events /\ queue' \in Seq(Events)
      /\ Head(queue) = queue[1] /\ Len(queue) \in Nat
      /\ DOMAIN queue = 1 .. Len(queue) /\ DOMAIN queue' = 1 .. Len(queue) - 1
      /\ \A n \in 1 .. Len(queue) - 1 : queue'[n] = queue[n + 1]
  BY <1>1, <1>2, HeadTailProperties
<1>4. type # "resized" /\ HasResize => HasResize'
  <2>1. SUFFICES ASSUME type # "resized", HasResize PROVE HasResize'
    OBVIOUS
  <2>2. PICK n \in 1 .. Len(queue) : queue[n].type = "resized"
    BY <1>3, <2>1 DEF HasResize
  <2>3. n # 1
    BY <1>1, <1>3, <2>1, <2>2
  <2>4. n - 1 \in 1 .. Len(queue) - 1 /\ (n - 1) + 1 = n
    BY <1>3, <2>2, <2>3
  <2>5. queue'[n - 1].type = "resized"
    BY <1>3, <2>2, <2>4
  <2> QED
    BY <1>3, <2>4, <2>5 DEF HasResize
<1> QED
  BY <1>1, <1>3, <1>4

-----------------------------------------------------------------------------
(***************************************************************************)
(* The first state, the user and the window system                         *)
(***************************************************************************)

LEMMA Initial == Init => IInv
<1> SUFFICES ASSUME Init PROVE IInv
  OBVIOUS
<1>1. 0 \in Images /\ NotStaged \in Int
  BY ViewerAssumption DEF Images, NotStaged
<1>2. InitialView(surface) \in Views
  BY DEF Init, InitialView, Views
<1>3. TypeOK
  <2>1. /\ surface \in Heights /\ render_area_height \in Heights
        /\ queue \in Seq(Events) /\ held \in BOOLEAN /\ inputs \in 0 .. MaxInputs
    <3>1. queue = <<>> /\ held = FALSE /\ inputs = 0
      BY DEF Init
    <3>2. queue \in Seq(Events)
      BY <3>1, EmptySeq
    <3>3. inputs \in 0 .. MaxInputs
      BY <3>1, ViewerAssumption
    <3>4. surface \in Heights /\ render_area_height \in Heights
      BY DEF Init
    <3>5. held \in BOOLEAN
      BY <3>1
    <3> QED
      BY <3>2, <3>3, <3>4, <3>5
  <2>2. /\ swapchain \in [height : Heights, images : ImageCounts]
        /\ framebuffers \in ImageCounts \cup {0} /\ stray \in Int
        /\ image_size \in [Images -> Sizes]
    BY DEF Init
  <2>3. image_view_data \in [Images -> Views] /\ gpu_view_data \in [Images -> Views]
    BY <1>2 DEF Init
  <2>4. /\ current_image_index \in Images /\ title \in Images
        /\ left_button_down_y \in Int /\ window_height \in Heights \cup {0}
        /\ window_has_been_resized \in BOOLEAN /\ window_should_close \in BOOLEAN
        /\ quadmesh \in BOOLEAN /\ pc = "start"
        /\ staged \in [Images -> Nat \cup {NotStaged}]
    BY <1>1 DEF Init
  <2> QED
    BY <2>1, <2>2, <2>3, <2>4 DEF TypeOK, Views
<1>4. ResizeInv /\ TurnInv
  BY DEF Init, ResizeInv, TurnInv
<1>5. ViewInv
  BY DEF Init, ViewInv, InitialView
<1>6. StagedApart
  BY DEF Init, StagedApart
<1> QED
  BY <1>3, <1>4, <1>5, <1>6 DEF IInv

\* The staging buffer is filled by Draw only.
LEMMA UploadFrame ==
    ASSUME StagedApart, UNCHANGED upload
    PROVE  StagedApart'
BY DEF StagedApart, upload, RoundUp

\* What the user and the window system leave alone.
LEMMA UserFrame ==
    ASSUME IInv, User
    PROVE  /\ UNCHANGED <<pc, render_area_height, chain, view, choice, turn, upload>>
           /\ inputs' \in 0 .. MaxInputs /\ held' \in BOOLEAN /\ surface' \in Heights
           /\ \E e \in Events : /\ queue' = Append(queue, e)
                                /\ surface' # surface => e.type = "resized"
<1>1. /\ inputs \in 0 .. MaxInputs /\ held \in BOOLEAN /\ surface \in Heights
      /\ MaxInputs \in Nat
  BY ViewerAssumption DEF IInv, TypeOK
<1>2. ASSUME NEW e \in Events, Input(e)
      PROVE  /\ UNCHANGED <<pc, render_area_height, chain, view, choice, turn, upload>>
             /\ inputs' \in 0 .. MaxInputs /\ queue' = Append(queue, e)
  BY <1>1, <1>2 DEF Input
<1>3. CASE \E y \in Positions : Press(y)
  <2>1. PICK y \in Positions : Press(y)
    BY <1>3
  <2>2. [type |-> "press", y |-> y] \in Events
    BY DEF Events
  <2> QED
    BY <1>1, <1>2, <2>1, <2>2 DEF Press
<1>4. CASE \E y \in Positions : Move(y)
  <2>1. PICK y \in Positions : Move(y)
    BY <1>4
  <2>2. [type |-> "move", y |-> y, left |-> held] \in Events
    BY <1>1 DEF Events
  <2> QED
    BY <1>1, <1>2, <2>1, <2>2 DEF Move
<1>5. CASE Release
  <2>1. [type |-> "release"] \in Events
    BY DEF Events
  <2> QED
    BY <1>1, <1>2, <1>5, <2>1 DEF Release
<1>6. CASE \E k \in {"right", "left", "R", "other"} : Key(k)
  <2>1. PICK k \in {"right", "left", "R", "other"} : Key(k)
    BY <1>6
  <2>2. [type |-> "key", key |-> k] \in Events
    BY DEF Events
  <2> QED
    BY <1>1, <1>2, <2>1, <2>2 DEF Key
<1>7. CASE \E d \in {-1, 1} : Scroll(d)
  <2>1. PICK d \in {-1, 1} : Scroll(d)
    BY <1>7
  <2>2. [type |-> "scroll", by |-> d] \in Events
    BY DEF Events
  <2> QED
    BY <1>1, <1>2, <2>1, <2>2 DEF Scroll
<1>8. CASE \E h \in Heights : Resize(h)
  <2>1. PICK h \in Heights : Resize(h)
    BY <1>8
  <2>2. [type |-> "resized"] \in Events
    BY DEF Events
  <2> QED
    BY <1>1, <1>2, <2>1, <2>2 DEF Resize
<1>9. CASE Close
  <2>1. [type |-> "close"] \in Events
    BY DEF Events
  <2> QED
    BY <1>1, <1>2, <1>9, <2>1 DEF Close
<1> QED
  BY <1>3, <1>4, <1>5, <1>6, <1>7, <1>8, <1>9 DEF User

LEMMA UserStep ==
    ASSUME IInv, User
    PROVE  IInv'
<1>1. PICK e \in Events : /\ queue' = Append(queue, e)
                          /\ surface' # surface => e.type = "resized"
  BY UserFrame
<1>2. /\ UNCHANGED <<pc, render_area_height, chain, view, choice, turn, upload>>
      /\ inputs' \in 0 .. MaxInputs /\ held' \in BOOLEAN /\ surface' \in Heights
  BY UserFrame
<1>3. queue \in Seq(Events)
  BY DEF IInv, TypeOK
<1>4. /\ queue' \in Seq(Events)
      /\ HasResize => HasResize'
      /\ e.type = "resized" => HasResize'
  BY <1>1, <1>3, Appended
<1>5. TypeOK'
  BY <1>2, <1>4 DEF IInv, TypeOK, chain, view, choice, turn, upload
<1>6. ResizeInv'
  BY <1>1, <1>2, <1>4 DEF IInv, ResizeInv, chain
<1>7. TurnInv' /\ ViewInv'
  BY <1>2 DEF IInv, TurnInv, ViewInv, turn, view, choice
<1>8. StagedApart'
  BY <1>2, UploadFrame DEF IInv
<1> QED
  BY <1>5, <1>6, <1>7, <1>8 DEF IInv

-----------------------------------------------------------------------------
(***************************************************************************)
(* The start, and the frame                                                *)
(***************************************************************************)

\* A new swapchain has the size of the window.
LEMMA NewSwapchain ==
    ASSUME TypeOK, CreateSwapchain
    PROVE  /\ swapchain' \in [height : Heights, images : ImageCounts]
           /\ swapchain'.height = surface
           /\ framebuffers' \in ImageCounts \cup {0} /\ stray' \in Int
<1>1. PICK n \in ImageCounts :
          /\ swapchain' = [height |-> surface, images |-> n]
          /\ stray' = stray + IF framebuffers = 0 THEN 0 ELSE framebuffers - n
          /\ framebuffers' = n
  BY DEF CreateSwapchain
<1>2. surface \in Heights /\ stray \in Int /\ framebuffers \in ImageCounts \cup {0}
  BY DEF TypeOK
<1>3. n \in Int /\ framebuffers \in Int
  BY <1>2, ViewerAssumption
<1>4. stray' \in Int
  BY <1>1, <1>2, <1>3
<1> QED
  BY <1>1, <1>2, <1>4

LEMMA StartStep ==
    ASSUME IInv, Start
    PROVE  IInv'
<1>1. /\ pc = "start" /\ pc' = "load" /\ CreateSwapchain
      /\ UNCHANGED <<window, render_area_height, view, choice, turn, upload>>
  BY DEF Start
<1>2. /\ swapchain' \in [height : Heights, images : ImageCounts]
      /\ swapchain'.height = surface
      /\ framebuffers' \in ImageCounts \cup {0} /\ stray' \in Int
  BY <1>1, NewSwapchain DEF IInv
<1>3. TypeOK'
  BY <1>1, <1>2 DEF IInv, TypeOK, window, view, choice, turn, upload
<1>4. ResizeInv'
  <2>1. HasResize' <=> HasResize
    BY <1>1 DEF HasResize, window
  <2>2. render_area_height = swapchain.height /\ (surface # swapchain.height => HasResize)
    BY <1>1 DEF IInv, ResizeInv
  <2> QED
    BY <1>1, <1>2, <2>1, <2>2 DEF ResizeInv, window
<1>5. TurnInv' /\ ViewInv'
  BY <1>1 DEF IInv, TurnInv, ViewInv, view, choice
<1>6. StagedApart'
  BY <1>1, UploadFrame DEF IInv
<1> QED
  BY <1>3, <1>4, <1>5, <1>6 DEF IInv

LEMMA LoadStep ==
    ASSUME IInv, Load
    PROVE  IInv'
<1>1. /\ pc = "load" /\ pc' = "turn"
      /\ image_view_data' = [i \in Images |-> InitialView(render_area_height)]
      /\ gpu_view_data' = image_view_data' /\ left_button_down_y' = 0
      /\ UNCHANGED <<window, render_area_height, chain, choice, turn, upload>>
  BY DEF Load
<1>2. image_view_data' \in [Images -> Views]
  BY <1>1 DEF IInv, TypeOK, InitialView, Views
<1>3. TypeOK'
  BY <1>1, <1>2 DEF IInv, TypeOK, Views, window, chain, choice, turn, upload
<1>4. ResizeInv' /\ TurnInv'
  BY <1>1 DEF IInv, ResizeInv, TurnInv, HasResize, window, chain
<1>5. ViewInv'
  BY <1>1 DEF IInv, ViewInv, InitialView, choice
<1>6. StagedApart'
  BY <1>1, UploadFrame DEF IInv
<1> QED
  BY <1>3, <1>4, <1>5, <1>6 DEF IInv

\* Steps that neither change views nor sizes keep what is known, if they go to
\* a frame only with the right sizes.
LEMMA FrameStep ==
    ASSUME IInv,
           UNCHANGED <<window, render_area_height, chain, view, choice>>,
           TypeOK', StagedApart', TurnInv',
           pc' \in {"acquire", "draw", "present"} =>
               render_area_height = swapchain.height,
           pc' # "start"
    PROVE  IInv'
<1>1. ResizeInv'
  BY DEF IInv, ResizeInv, HasResize, window, chain
<1>2. ViewInv'
  BY DEF IInv, ViewInv, view, choice
<1> QED
  BY <1>1, <1>2 DEF IInv

LEMMA StartTurnStep ==
    ASSUME IInv, StartTurn
    PROVE  IInv'
<1>1. /\ pc' \in {"shutdown", "events"}
      /\ UNCHANGED <<window, render_area_height, chain, view, choice, upload>>
  BY DEF StartTurn
<1>2. TypeOK'
  BY DEF StartTurn, IInv, TypeOK, window, chain, view, choice, turn, upload
<1>3. TurnInv'
  BY DEF StartTurn, TurnInv, turn
<1>4. StagedApart'
  BY <1>1, UploadFrame DEF IInv
<1> QED
  BY <1>1, <1>2, <1>3, <1>4, FrameStep

LEMMA EndEventsStep ==
    ASSUME IInv, EndEvents
    PROVE  IInv'
<1>1. /\ pc = "events" /\ queue = <<>>
      /\ pc' = IF window_has_been_resized THEN "turn" ELSE "acquire"
      /\ UNCHANGED <<window, render_area_height, chain, view, choice, turn, upload>>
  BY DEF EndEvents
<1>2. TypeOK'
  BY <1>1 DEF IInv, TypeOK, window, chain, view, choice, turn, upload
<1>3. TurnInv'
  BY <1>1 DEF IInv, TurnInv, turn
<1>4. render_area_height = swapchain.height
  BY <1>1 DEF IInv, ResizeInv, HasResize
<1>5. StagedApart'
  BY <1>1, UploadFrame DEF IInv
<1> QED
  BY <1>1, <1>2, <1>3, <1>4, <1>5, FrameStep

\* Acquire, Present and Shutdown.
LEMMA PresentStep ==
    ASSUME IInv, Acquire \/ Present \/ Shutdown
    PROVE  IInv'
<1>1. /\ \/ pc = "acquire" /\ pc' \in {"draw", "out of date"}
         \/ pc = "present" /\ pc' \in {"turn", "out of date"}
         \/ pc = "shutdown" /\ pc' \in {"exited", "crashed"}
      /\ UNCHANGED <<window, render_area_height, chain, view, choice, turn, upload>>
  BY DEF Acquire, Present, Shutdown, UseSwapchain
<1>2. TypeOK'
  BY <1>1 DEF IInv, TypeOK, window, chain, view, choice, turn, upload
<1>3. TurnInv' /\ (pc' = "draw" => render_area_height = swapchain.height)
  BY <1>1 DEF IInv, TurnInv, ResizeInv, turn
<1>4. StagedApart'
  BY <1>1, UploadFrame DEF IInv
<1> QED
  BY <1>1, <1>2, <1>3, <1>4, FrameStep

\* The first frame puts the images into the staging buffer.
LEMMA DrawStep ==
    ASSUME IInv, Draw
    PROVE  IInv'
<1>1. /\ pc = "draw" /\ pc' \in {"present", "out of staging"}
      /\ UNCHANGED <<window, render_area_height, chain, view, choice, turn, image_size>>
      /\ quadmesh' \in BOOLEAN
      /\ \/ UNCHANGED staged
         \/ /\ staged' = [i \in Images |-> Offset(i)]
            /\ ~(Offset(NumImages) > StagingSize)
  BY DEF Draw, upload, IInv, TypeOK
<1>2. TypeOK
  BY DEF IInv
<1>3. CASE UNCHANGED staged
  <2>1. TypeOK'
    BY <1>1, <1>2, <1>3 DEF TypeOK, window, chain, view, choice, turn
  <2>2. StagedApart'
    BY <1>1, <1>3 DEF IInv, StagedApart, RoundUp
  <2>3. TurnInv' /\ render_area_height = swapchain.height
    BY <1>1 DEF IInv, TurnInv, ResizeInv, turn
  <2> QED
    BY <1>1, <2>1, <2>2, <2>3, FrameStep
<1>4. CASE staged' = [i \in Images |-> Offset(i)] /\ ~(Offset(NumImages) > StagingSize)
  <2>1. Offset(NumImages) \in Nat /\ StagingSize \in Nat
    BY <1>2, OccupiedGrows, ViewerAssumption DEF Offset
  <2>2. Offset(NumImages) <= StagingSize
    BY <1>4, <2>1
  <2>3. \A i \in Images :
            /\ Offset(i) \in Nat
            /\ Offset(i) + RoundUp(image_size[i]) <= StagingSize
            /\ \A j \in Images \ {i} :
                   \/ Offset(j) + RoundUp(image_size[j]) <= Offset(i)
                   \/ Offset(i) + RoundUp(image_size[i]) <= Offset(j)
    BY <1>2, <2>2, OffsetsApart
  <2>4. \A i \in Images : staged'[i] = Offset(i)
    BY <1>4
  <2>5. staged' \in [Images -> Nat \cup {NotStaged}]
    BY <1>4, <2>3
  <2>6. TypeOK'
    BY <1>1, <1>2, <2>5 DEF TypeOK, window, chain, view, choice, turn
  <2>7. StagedApart'
    <3>1. \A i \in Images : RoundUp(image_size[i])' = RoundUp(image_size[i])
      BY <1>1 DEF RoundUp
    <3> QED
      BY <2>3, <2>4, <3>1 DEF StagedApart
  <2>8. TurnInv' /\ render_area_height = swapchain.height
    BY <1>1 DEF IInv, TurnInv, ResizeInv, turn
  <2> QED
    BY <1>1, <2>6, <2>7, <2>8, FrameStep
<1> QED
  BY <1>1, <1>3, <1>4

-----------------------------------------------------------------------------
(***************************************************************************)
(* The events                                                              *)
(***************************************************************************)

\* Reading an event other than a resize keeps the sizes; what is left is that
\* the views have their types and the copies agree.
LEMMA EventStep ==
    ASSUME IInv, NEW type, Read(type), type # "resized",
           UNCHANGED <<render_area_height, chain, window_height, window_has_been_resized>>,
           window_should_close' \in BOOLEAN,
           image_view_data' \in [Images -> Views],
           gpu_view_data' = image_view_data',
           \A i \in Images : image_view_data'[i].window = render_area_height,
           left_button_down_y' \in Int,
           current_image_index' \in Images,
           title' = current_image_index'
    PROVE  IInv'
<1>1. TypeOK
  BY DEF IInv
<1>2. /\ queue' \in Seq(Events) /\ pc = "events"
      /\ UNCHANGED <<surface, held, inputs, pc, upload>>
      /\ HasResize => HasResize'
  BY <1>1, ReadProperties
<1>3. TypeOK'
  BY <1>1, <1>2 DEF TypeOK, Views, chain, upload
<1>4. ResizeInv'
  BY <1>2 DEF IInv, ResizeInv, chain
<1>5. TurnInv'
  BY <1>2 DEF IInv, TurnInv
<1>6. ViewInv'
  BY DEF ViewInv
<1>7. StagedApart'
  BY <1>2, UploadFrame DEF IInv
<1> QED
  BY <1>3, <1>4, <1>5, <1>6, <1>7 DEF IInv

\* What is known of the views before an event.
LEMMA ViewsKnown ==
    ASSUME IInv
    PROVE  /\ image_view_data \in [Images -> Views] /\ gpu_view_data = image_view_data
           /\ \A i \in Images : image_view_data[i].window = render_area_height
           /\ left_button_down_y \in Int /\ current_image_index \in Images
           /\ title = current_image_index /\ window_should_close \in BOOLEAN
           /\ render_area_height \in Heights
<1> QED
  BY DEF IInv, TypeOK, ViewInv, Views

\* The y coordinate of a pointer event is a number.
LEMMA UpwardsIsInt ==
    ASSUME render_area_height \in Heights, NEW y \in Positions
    PROVE  Upwards(y) \in Int
<1>1. render_area_height \in Int /\ y \in Int
  BY ViewerAssumption DEF Positions
<1> QED
  BY <1>1 DEF Upwards

\* Both arrow keys wrap.
LEMMA NextImageIsImage ==
    ASSUME current_image_index \in Images, NEW k
    PROVE  NextImage(k) \in Images
<1>1. NumImages \in Nat \ {0}
  BY ViewerAssumption
<1>2. \A n \in Nat : n % NumImages \in Images
  BY <1>1 DEF Images
<1>3. /\ current_image_index + 1 \in Nat
      /\ current_image_index + NumImages - 1 \in Nat
  BY <1>1 DEF Images
<1>4. /\ (current_image_index + 1) % NumImages \in Images
      /\ (current_image_index + NumImages - 1) % NumImages \in Images
  BY <1>2, <1>3
<1> QED
  BY <1>4 DEF NextImage

\* A copied view is the view.
LEMMA Copied ==
    ASSUME gpu_view_data = image_view_data, image_view_data \in [Images -> Views],
           image_view_data' \in [Images -> Views], NEW S, Update(S),
           \A i \in Images \ S : image_view_data'[i] = image_view_data[i]
    PROVE  gpu_view_data' = image_view_data'
<1>1. gpu_view_data' = [i \in Images |-> IF i \in S THEN image_view_data'[i]
                                                    ELSE gpu_view_data[i]]
  BY DEF Update
<1>2. \A i \in Images : gpu_view_data'[i] = image_view_data'[i]
  BY <1>1
<1> QED
  BY <1>1, <1>2

LEMMA HandleKeyStep ==
    ASSUME IInv, HandleKey
    PROVE  IInv'
<1> DEFINE k == Head(queue).key
<1>1. /\ Read("key") /\ current_image_index' = NextImage(k)
      /\ title' = current_image_index'
      /\ UNCHANGED <<render_area_height, chain, left_button_down_y, turn>>
      /\ \/ /\ image_view_data' =
                   [i \in Images |-> InitialView(image_view_data[i].window)]
            /\ Update(Images)
         \/ UNCHANGED <<image_view_data, gpu_view_data>>
  BY DEF HandleKey
<1>2. current_image_index' \in Images
  BY <1>1, ViewsKnown, NextImageIsImage
<1>3. /\ image_view_data' \in [Images -> Views] /\ gpu_view_data' = image_view_data'
      /\ \A i \in Images : image_view_data'[i].window = render_area_height
  <2>1. CASE UNCHANGED <<image_view_data, gpu_view_data>>
    BY <2>1, ViewsKnown
  <2>2. CASE /\ image_view_data' =
                    [i \in Images |-> InitialView(image_view_data[i].window)]
             /\ Update(Images)
    <3>1. image_view_data' = [i \in Images |-> InitialView(render_area_height)]
      BY <2>2, ViewsKnown
    <3>2. /\ InitialView(render_area_height) \in Views
          /\ InitialView(render_area_height).window = render_area_height
      BY ViewsKnown DEF InitialView, Views
    <3>3. image_view_data' \in [Images -> Views]
      BY <3>1, <3>2
    <3>4. gpu_view_data' = image_view_data'
      BY <2>2, <3>3, ViewsKnown, Copied
    <3> QED
      BY <3>1, <3>2, <3>3, <3>4
  <2> QED
    BY <1>1, <2>1, <2>2
<1> QED
  BY <1>1, <1>2, <1>3, ViewsKnown, EventStep DEF turn

LEMMA HandlePressStep ==
    ASSUME IInv, HandlePress
    PROVE  IInv'
<1>1. /\ Read("press") /\ left_button_down_y' = Upwards(Head(queue).y)
      /\ UNCHANGED <<render_area_height, chain, image_view_data, gpu_view_data,
                     choice, turn>>
  BY DEF HandlePress
<1>2. Head(queue) \in Events /\ Head(queue).type = "press"
  BY <1>1, ReadProperties DEF IInv
<1>3. Head(queue).y \in Positions
  BY <1>2 DEF Events
<1>4. left_button_down_y' \in Int
  BY <1>1, <1>3, ViewsKnown, UpwardsIsInt
<1> QED
  BY <1>1, <1>4, ViewsKnown, EventStep DEF turn, choice

\* Changing the scale or the offset of the current image.
LEMMA ChangedView ==
    ASSUME IInv, NEW v \in Views, v.window = render_area_height,
           image_view_data' = [image_view_data EXCEPT ![current_image_index] = v],
           Update({current_image_index})
    PROVE  /\ image_view_data' \in [Images -> Views]
           /\ gpu_view_data' = image_view_data'
           /\ \A i \in Images : image_view_data'[i].window = render_area_height
<1>1. image_view_data' \in [Images -> Views]
  BY ViewsKnown
<1>2. gpu_view_data' = image_view_data'
  BY <1>1, ViewsKnown, Copied
<1> QED
  BY <1>1, <1>2, ViewsKnown

LEMMA HandleMoveStep ==
    ASSUME IInv, HandleMove
    PROVE  IInv'
<1> DEFINE y == Upwards(Head(queue).y)
           old == image_view_data[current_image_index]
           v == [old EXCEPT !.offset = @ + left_button_down_y - y]
<1>1. /\ Read("move")
      /\ UNCHANGED <<render_area_height, chain, choice, turn>>
      /\ \/ /\ image_view_data' = [image_view_data EXCEPT ![current_image_index] = v]
            /\ left_button_down_y' = y
            /\ Update({current_image_index})
         \/ UNCHANGED view
  BY DEF HandleMove
<1>2. Head(queue) \in Events /\ Head(queue).type = "move"
  BY <1>1, ReadProperties DEF IInv
<1>3. Head(queue).y \in Positions
  BY <1>2 DEF Events
<1>4. y \in Int
  BY <1>3, ViewsKnown, UpwardsIsInt
<1>5. v \in Views /\ v.window = render_area_height
  <2>1. old \in Views /\ old.window = render_area_height /\ left_button_down_y \in Int
    BY ViewsKnown
  <2> HIDE DEF old, y
  <2>2. old.offset + left_button_down_y - y \in Int
    BY <1>4, <2>1 DEF Views
  <2> QED
    BY <2>1, <2>2 DEF Views
<1>6. CASE UNCHANGED view
  BY <1>1, <1>6, ViewsKnown, EventStep DEF view, turn, choice
<1>7. CASE /\ image_view_data' = [image_view_data EXCEPT ![current_image_index] = v]
           /\ left_button_down_y' = y
           /\ Update({current_image_index})
  <2> HIDE DEF v, y
  <2>1. /\ image_view_data' \in [Images -> Views]
        /\ gpu_view_data' = image_view_data'
        /\ \A i \in Images : image_view_data'[i].window = render_area_height
    BY <1>5, <1>7, ChangedView
  <2> QED
    BY <1>1, <1>4, <1>7, <2>1, ViewsKnown, EventStep DEF turn, choice
<1> QED
  BY <1>1, <1>6, <1>7

LEMMA HandleScrollStep ==
    ASSUME IInv, HandleScroll
    PROVE  IInv'
<1> DEFINE d == Head(queue).by
           old == image_view_data[current_image_index]
           v == [old EXCEPT !.scale = @ + d]
<1>1. /\ Read("scroll")
      /\ image_view_data' = [image_view_data EXCEPT ![current_image_index] = v]
      /\ Update({current_image_index})
      /\ UNCHANGED <<render_area_height, chain, left_button_down_y, choice, turn>>
  BY DEF HandleScroll
<1>2. Head(queue) \in Events /\ Head(queue).type = "scroll"
  BY <1>1, ReadProperties DEF IInv
<1>3. d \in Int
  BY <1>2 DEF Events
<1>4. v \in Views /\ v.window = render_area_height
  <2>1. old \in Views /\ old.window = render_area_height
    BY ViewsKnown
  <2> HIDE DEF old, d
  <2>2. old.scale + d \in Int
    BY <1>3, <2>1 DEF Views
  <2> QED
    BY <2>1, <2>2 DEF Views
<1> HIDE DEF v, d
<1>5. /\ image_view_data' \in [Images -> Views]
      /\ gpu_view_data' = image_view_data'
      /\ \A i \in Images : image_view_data'[i].window = render_area_height
  BY <1>1, <1>4, ChangedView
<1> QED
  BY <1>1, <1>5, ViewsKnown, EventStep DEF turn, choice

LEMMA HandleCloseStep ==
    ASSUME IInv, HandleClose \/ HandleRelease
    PROVE  IInv'
<1>1. CASE HandleClose
  <2>1. /\ Read("close") /\ window_should_close' = TRUE
        /\ UNCHANGED <<render_area_height, chain, view, choice, window_height,
                       window_has_been_resized>>
    BY <1>1 DEF HandleClose
  <2> QED
    BY <2>1, ViewsKnown, EventStep DEF view, choice
<1>2. CASE HandleRelease
  <2>1. Read("release") /\ UNCHANGED <<render_area_height, chain, view, choice, turn>>
    BY <1>2 DEF HandleRelease
  <2> QED
    BY <2>1, ViewsKnown, EventStep DEF view, choice, turn
<1> QED
  BY <1>1, <1>2

\* After a resize is read, swapchain, render area and views have the size the
\* window has now, whichever resize it was.
LEMMA HandleResizeStep ==
    ASSUME IInv, HandleResize
    PROVE  IInv'
<1>1. /\ Read("resized") /\ CreateSwapchain
      /\ render_area_height' = swapchain'.height
      /\ image_view_data' = [i \in Images |->
             [image_view_data[i] EXCEPT !.window = render_area_height']]
      /\ Update(Images) /\ window_has_been_resized' = TRUE
      /\ UNCHANGED <<left_button_down_y, choice, window_height, window_should_close>>
  BY DEF HandleResize
<1>2. TypeOK
  BY DEF IInv
<1>3. /\ queue' \in Seq(Events) /\ pc = "events"
      /\ UNCHANGED <<surface, held, inputs, pc, upload>>
  BY <1>1, <1>2, ReadProperties
<1>4. /\ swapchain' \in [height : Heights, images : ImageCounts]
      /\ swapchain'.height = surface
      /\ framebuffers' \in ImageCounts \cup {0} /\ stray' \in Int
  BY <1>1, <1>2, NewSwapchain
<1>5. render_area_height' = surface /\ surface \in Heights
  BY <1>1, <1>2, <1>4 DEF TypeOK
<1>6. ASSUME NEW i \in Images
      PROVE  /\ [image_view_data[i] EXCEPT !.window = surface] \in Views
             /\ [image_view_data[i] EXCEPT !.window = surface].window = surface
  <2>1. image_view_data[i] \in Views
    BY ViewsKnown
  <2> QED
    BY <1>5, <2>1 DEF Views
<1>7. image_view_data' = [i \in Images |->
          [image_view_data[i] EXCEPT !.window = surface]]
  BY <1>1, <1>5
<1>8. /\ image_view_data' \in [Images -> Views]
      /\ \A i \in Images : image_view_data'[i].window = render_area_height'
  BY <1>5, <1>6, <1>7
<1>9. gpu_view_data' = image_view_data'
  BY <1>1, <1>8, ViewsKnown, Copied
<1>10. TypeOK'
  BY <1>1, <1>2, <1>3, <1>4, <1>5, <1>8, <1>9 DEF TypeOK, Views, choice, upload
<1>11. ResizeInv'
  BY <1>3, <1>4, <1>5 DEF ResizeInv
<1>12. TurnInv'
  BY <1>1, <1>3 DEF TurnInv
<1>13. ViewInv'
  BY <1>1, <1>8, <1>9, ViewsKnown DEF ViewInv, choice
<1>14. StagedApart'
  BY <1>3, UploadFrame DEF IInv
<1> QED
  BY <1>10, <1>11, <1>12, <1>13, <1>14 DEF IInv

-----------------------------------------------------------------------------
(***************************************************************************)
(* Every step, and the theorems                                            *)
(***************************************************************************)

LEMMA Stutter ==
    ASSUME IInv, UNCHANGED vars
    PROVE  IInv'
<1>1. UNCHANGED <<window, pc, render_area_height, chain, view, choice, turn, upload>>
  BY DEF vars
<1>2. TypeOK'
  BY <1>1 DEF IInv, TypeOK, window, chain, view, choice, turn, upload
<1>3. ResizeInv'
  BY <1>1 DEF IInv, ResizeInv, HasResize, window, chain
<1>4. TurnInv'
  BY <1>1 DEF IInv, TurnInv, turn
<1>5. ViewInv'
  BY <1>1 DEF IInv, ViewInv, view, choice
<1>6. StagedApart'
  BY <1>1, UploadFrame DEF IInv
<1> QED
  BY <1>2, <1>3, <1>4, <1>5, <1>6 DEF IInv

LEMMA Inductive ==
    ASSUME IInv, [Next]_vars
    PROVE  IInv'
<1>1. CASE User
  BY <1>1, UserStep
<1>2. CASE Application
  BY <1>2, StartStep, LoadStep, StartTurnStep, HandleKeyStep, HandlePressStep,
     HandleMoveStep, HandleScrollStep, HandleResizeStep, HandleCloseStep,
     EndEventsStep, PresentStep, DrawStep DEF Application
<1>3. CASE Ended \/ UNCHANGED vars
  BY <1>3, Stutter DEF Ended
<1> QED
  BY <1>1, <1>2, <1>3 DEF Next

\* The invariant holds in every state: swapchain and render area differ from
\* the window only while a resize waits to be read, the copies of the views
\* agree, and the staging buffer's images are apart.
THEOREM Invariance == Spec => []IInv
<1>1. Init => IInv
  BY Initial
<1>2. IInv /\ [Next]_vars => IInv'
  BY Inductive
<1> QED
  BY <1>1, <1>2, PTL DEF Spec

\* Every variable of App_run keeps its type; the index of the current image is
\* that of an image.
THEOREM TypeCorrect == Spec => []TypeOK
<1>1. IInv => TypeOK
  BY DEF IInv
<1> QED
  BY <1>1, Invariance, PTL

\* A frame is drawn only with a viewport, a render area and views that have the
\* swapchain's size, with the view data the events asked for and under the
\* title of the drawn image, however resizes and other events are interleaved
\* with the main loop.
THEOREM FramesUpToDate == Spec => []FrameUpToDate
<1>1. IInv => FrameUpToDate
  BY DEF IInv, ResizeInv, TurnInv, ViewInv, FrameUpToDate
<1> QED
  BY <1>1, Invariance, PTL

\* The images' places in the staging buffer are inside it and apart, for any
\* number of images of any sizes.
THEOREM StagingApart == Spec => []StagedApart
<1>1. IInv => StagedApart
  BY DEF IInv
<1> QED
  BY <1>1, Invariance, PTL

=============================================================================
