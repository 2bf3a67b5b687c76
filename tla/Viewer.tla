--------------------------------- MODULE Viewer ---------------------------------
(***************************************************************************)
(* The window in which a watcher sees the shared screen (core/src/window/  *)
(* screensharing_window.rs, aspect_ratio, livekit/video.rs).               *)
(*                                                                         *)
(* A stream's task writes each picture into one of two slots, numbers it   *)
(* and then swaps the slots; the window, on the event loop's thread, reads *)
(* the number, then looks into the other slot for the picture's shape and  *)
(* again to upload it, and skips the upload of a number it has had.  The   *)
(* slots are locked, the index, the number and the order of the two are    *)
(* not.  A room has one pair of slots for all its streams, so that a task  *)
(* that has been told to stop may still write into them.                   *)
(*                                                                         *)
(* What a picture of another shape does to the window is ViewerSize's.     *)
(***************************************************************************)
EXTENDS Naturals, Sequences

CONSTANTS
    Shapes,         \* the pictures' dimensions
    NoShape,        \* no picture yet: width and height 0
    RestartGap,     \* 40: how much lower a number must be to be a new stream's
    MaxPictures, MaxStreams     \* bounds

ASSUME ViewerAssumption ==
    /\ NoShape \notin Shapes
    /\ RestartGap \in Nat /\ MaxPictures \in Nat /\ MaxStreams \in Nat

VARIABLES
    slots,          \* buffers: the picture in each
    writeIndex,     \* write_index
    frameId,        \* frame_id, and the stream it is of
    tasks,          \* process_video_stream, per stream
    received,       \* pictures received so far
    openings,       \* OpenScreenShareWindow events
    viewing,        \* there is a window
    redrawAsked,    \* a redraw is requested
    redraw,         \* the redraw that is in progress
    lastId,         \* last_rendered_frame_id, and the stream it is of
    texture,        \* the picture on the screen
    drawn,          \* the number that the last redraw has read which came to its end, and
                    \* the number that it was measured by
    lastShape,      \* last_stream_width, last_stream_height
    crossed         \* a stream has written while there was a later one

bufferVars == <<slots, writeIndex, frameId>>
feedVars == <<tasks, received, openings, crossed>>
drawVars == <<redrawAsked, redraw, lastId, texture, drawn, lastShape>>
viewerVars == <<bufferVars, feedVars, viewing, drawVars>>

NoPicture == [stream |-> 0, no |-> 0, shape |-> NoShape]

--------------------------------------------------------------------------------
(* The slots. *)

OtherSlot(i) == 3 - i

\* latest_frame, up to its lock.
LatestFrame == OtherSlot(writeIndex)

\* Mutant of Swapped: the slots are not swapped.
NotSwapped(i) == i

\* The swap that advance_write makes of an index it has loaded.
Swapped(i) == OtherSlot(i)

--------------------------------------------------------------------------------
(* The tasks. *)

Task(i, task) ==
    /\ tasks' = [tasks EXCEPT ![i] = task]
    /\ crossed' = (crossed \/ (i < Len(tasks) /\ task.pc # "ended"))

\* A stream that has been told to end may find one more picture first.
TaskTakes(i, shape) ==
    /\ tasks[i].pc = "idle" /\ received < MaxPictures
    /\ received' = received + 1
    /\ Task(i, [tasks[i] EXCEPT !.pc = "aimed", !.shape = shape, !.at = writeIndex])
    /\ UNCHANGED <<bufferVars, openings, viewing, drawVars>>

TaskWrites(i) ==
    /\ tasks[i].pc = "aimed"
    /\ slots' = [slots EXCEPT ![tasks[i].at] =
                   [stream |-> i, no |-> tasks[i].counter, shape |-> tasks[i].shape]]
    /\ Task(i, [tasks[i] EXCEPT !.pc = "written"])
    /\ UNCHANGED <<writeIndex, frameId, received, openings, viewing, drawVars>>

\* set_frame_id, before the slots are swapped.
TaskNumbers(i) ==
    /\ tasks[i].pc = "written"
    /\ frameId' = [id |-> tasks[i].counter, stream |-> i]
    /\ Task(i, [tasks[i] EXCEPT !.pc = "numbered", !.counter = @ + 1])
    /\ UNCHANGED <<slots, writeIndex, received, openings, viewing, drawVars>>

\* advance_write loads the index and stores another.
TaskLoads(i) ==
    /\ tasks[i].pc = "numbered"
    /\ Task(i, [tasks[i] EXCEPT !.pc = "loaded", !.at = writeIndex])
    /\ UNCHANGED <<bufferVars, received, openings, viewing, drawVars>>

TaskSwaps(i) ==
    /\ tasks[i].pc = "loaded"
    /\ writeIndex' = Swapped(tasks[i].at)
    /\ Task(i, [tasks[i] EXCEPT !.pc = "idle"])
    /\ UNCHANGED <<slots, frameId, received, openings, viewing, drawVars>>

TaskEnds(i) ==
    /\ tasks[i].pc = "idle" /\ tasks[i].told
    /\ Task(i, [tasks[i] EXCEPT !.pc = "ended"])
    /\ UNCHANGED <<bufferVars, received, openings, viewing, drawVars>>

\* The stop channel of the last stream, when the share is muted or its track goes.
StopStream ==
    /\ tasks # <<>> /\ ~tasks[Len(tasks)].told
    /\ tasks' = [tasks EXCEPT ![Len(tasks)].told = TRUE]
    /\ UNCHANGED <<bufferVars, received, openings, crossed, viewing, drawVars>>

\* start_remote_screen_share_stream: the room's slots are used again.
StartStream ==
    /\ Len(tasks) < MaxStreams
    /\ tasks' = Append([i \in DOMAIN tasks |-> [tasks[i] EXCEPT !.told = TRUE]],
                       [pc |-> "idle", shape |-> NoShape, at |-> 1, counter |-> 0, told |-> FALSE])
    /\ openings' = openings + 1
    /\ UNCHANGED <<bufferVars, received, crossed, viewing, drawVars>>

--------------------------------------------------------------------------------
(* The window for a stream. *)

NoRedraw == [pc |-> "none", id |-> [id |-> 0, stream |-> 0], skip |-> FALSE, at |-> 1]
AtRest == redraw.pc = "none"

\* update_window_with_new_sharer, or a new window.
NewSharer ==
    /\ AtRest /\ openings > 0
    /\ openings' = openings - 1
    /\ viewing' = TRUE
    /\ lastId' = [id |-> 0, stream |-> 0]
    /\ lastShape' = NoShape
    /\ UNCHANGED <<bufferVars, tasks, received, crossed, redrawAsked, redraw, texture, drawn>>

\* The redraw thread: every tenth of a second, and when a task tells it of a picture; what
\* a task tells it while a redraw is in progress is lost.
RedrawThread ==
    /\ viewing /\ ~redrawAsked
    /\ redrawAsked' = TRUE
    /\ UNCHANGED <<bufferVars, feedVars, viewing, redraw, lastId, texture, drawn, lastShape>>

--------------------------------------------------------------------------------
(* A redraw. *)

\* Mutant of Restarted: no new stream is told by its numbers.
NeverRestarted(id, last) == FALSE

\* A number so much lower than the last is a new stream's.
Restarted(id, last) == id > 0 /\ last > RestartGap /\ id < last - RestartGap

\* The numbers of a stream's pictures begin with 0, which is never skipped.
Seen(id, last) == id > 0 /\ id <= last

RedrawBegins ==
    /\ viewing /\ redrawAsked /\ AtRest
    /\ redrawAsked' = FALSE
    /\ lastId' = IF Restarted(frameId.id, lastId.id) THEN [id |-> 0, stream |-> 0] ELSE lastId
    /\ redraw' = [redraw EXCEPT !.pc = "begun", !.id = frameId,
                                !.skip = Seen(frameId.id, lastId'.id)]
    /\ UNCHANGED <<bufferVars, feedVars, viewing, texture, drawn, lastShape>>

RedrawAims ==
    /\ redraw.pc = "begun"
    /\ redraw' = [redraw EXCEPT !.pc = "aimed", !.at = LatestFrame]
    /\ UNCHANGED <<bufferVars, feedVars, viewing, redrawAsked, lastId, texture, drawn, lastShape>>

\* A picture of another shape: the redraw ends, for the window to be resized first.
RedrawReshapes ==
    /\ redraw.pc = "aimed"
    /\ slots[redraw.at].shape \notin {NoShape, lastShape}
    /\ lastShape' = slots[redraw.at].shape
    /\ redraw' = NoRedraw
    /\ UNCHANGED <<bufferVars, feedVars, viewing, redrawAsked, lastId, texture, drawn>>

\* The shape is the last one, or there is no picture; the surface may give no texture.
RedrawLooks ==
    /\ redraw.pc = "aimed"
    /\ slots[redraw.at].shape \in {NoShape, lastShape}
    /\ redraw' \in {NoRedraw, [redraw EXCEPT !.pc = "looked", !.at = LatestFrame]}
    /\ UNCHANGED <<bufferVars, feedVars, viewing, redrawAsked, lastId, texture, drawn, lastShape>>

\* The texture stays when the upload is skipped, unless there is none, and when the slot
\* is empty.
Prepared(skip, picture) ==
    IF (skip /\ texture # NoPicture) \/ picture = NoPicture THEN texture ELSE picture

RedrawUploads ==
    /\ redraw.pc = "looked"
    /\ texture' = Prepared(redraw.skip, slots[redraw.at])
    /\ lastId' = IF redraw.skip THEN lastId ELSE redraw.id
    /\ drawn' = [id |-> redraw.id, over |-> lastId']
    /\ redraw' = NoRedraw
    /\ UNCHANGED <<bufferVars, feedVars, viewing, redrawAsked, lastShape>>

--------------------------------------------------------------------------------
(* Specification. *)

ViewerInit ==
    /\ slots = <<NoPicture, NoPicture>> /\ writeIndex = 1
    /\ frameId = [id |-> 0, stream |-> 0]
    /\ tasks = <<>> /\ received = 0 /\ openings = 0
    /\ viewing = FALSE /\ redrawAsked = FALSE /\ redraw = NoRedraw
    /\ lastId = [id |-> 0, stream |-> 0] /\ texture = NoPicture
    /\ drawn = [id |-> lastId, over |-> lastId]
    /\ lastShape = NoShape /\ crossed = FALSE

TaskSteps(i) ==
    \/ \E shape \in Shapes : TaskTakes(i, shape)
    \/ TaskWrites(i) \/ TaskNumbers(i) \/ TaskLoads(i) \/ TaskSwaps(i) \/ TaskEnds(i)

ViewerNext ==
    \/ \E i \in DOMAIN tasks : TaskSteps(i)
    \/ StopStream \/ StartStream \/ NewSharer \/ RedrawThread
    \/ RedrawBegins \/ RedrawAims \/ RedrawReshapes \/ RedrawLooks \/ RedrawUploads

ViewerSpec == ViewerInit /\ [][ViewerNext]_viewerVars

--------------------------------------------------------------------------------
(* Correctness. *)

\* Every variable has its type.
ViewerTypeOK ==
    /\ slots \in Seq([stream : 0..MaxStreams, no : Nat, shape : Shapes \cup {NoShape}])
    /\ writeIndex \in {1, 2} /\ Len(slots) = 2
    /\ frameId.stream \in 0..Len(tasks) /\ lastId.stream \in 0..Len(tasks)
    /\ drawn.id.stream \in 0..Len(tasks) /\ drawn.over.stream \in 0..Len(tasks)
    /\ Len(tasks) <= MaxStreams /\ received \in 0..MaxPictures /\ openings \in 0..MaxStreams
    /\ viewing \in BOOLEAN /\ redrawAsked \in BOOLEAN /\ crossed \in BOOLEAN
    /\ lastShape \in Shapes \cup {NoShape}

\* The new stream's number is not so much lower than the last that a redraw takes it for a
\* restart: until its numbers have come past that one the older share's picture stays.
RestartMissed(id, last) ==
    last.stream < id.stream /\ id.id <= last.id /\ last.id <= id.id + RestartGap

\* As long as the streams come one after the other, what is on the screen when a redraw has
\* come to its end is never more than one picture behind the number which that redraw has
\* read, and never older than the stream that number is of, unless it has missed a restart,
\* which it can only within RestartGap of the last number uploaded.
PictureIsRecent ==
    (~crossed /\ drawn.id.id > 0) =>
      \/ texture.stream > drawn.id.stream
      \/ texture.stream = drawn.id.stream /\ texture.no + 1 >= drawn.id.id
      \/ RestartMissed(drawn.id, drawn.over)
================================================================================
