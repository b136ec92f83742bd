---------------------------- MODULE DecoderOrder ----------------------------
(***************************************************************************)
(* The order in which pictures go through Decoder when its client plays a  *)
(* film: the invariant from which the properties of the decoding path      *)
(* follow (they are proved in DecoderProofs).                              *)
(*                                                                         *)
(* Pictures are numbered from 1 as they are begun.  The pending surfaces   *)
(* are those of an interval First .. Submitted of pictures, each queue     *)
(* holds an upper part of it in order, and picture p has the input buffer  *)
(* Slot(p).                                                                *)
(***************************************************************************)
EXTENDS Decoder

(* A client that plays a film: it syncs the oldest picture first, it does  *)
(* not reuse a surface while its sync may time out, and it keeps no more   *)
(* pictures unsynced than there are input buffers, one less when it        *)
(* creates the slice buffer after vaBeginPicture, which moves the counter. *)
PlaysInOrder ==
  /\ Client = "orderly"
  /\ Renders
  /\ Patient \/ Timely
  /\ IF BufferFirst THEN MaxAhead <= INPUT_BUFFERS_NB ELSE MaxAhead < INPUT_BUFFERS_NB

Slot(p) == (p - 1) % INPUT_BUFFERS_NB

(* The picture whose capture buffer was queued last, the oldest that is    *)
(* pending and the one the device decodes next.                            *)
LastFrame == IF decode_pc = "qout" THEN pictures ELSE Submitted

First == Submitted - Cardinality(pending) + 1

NextDecoded == Submitted - Waiting(out) + 1

(* A sync stands at one of these labels.                                   *)
SyncAt(labels) == \E t \in Threads : sync[t].at \in labels
-----------------------------------------------------------------------------
(* One sync at a time, and no picture is begun while one is in progress    *)
(* inside vaBeginPicture.                                                  *)
CallsInOrder ==
  /\ decode_pc # "dqcap"
  /\ sync["decode"].at # "idle" => decode_pc = "syncing"
  /\ decode_pc = "syncing" => /\ Timely
                              /\ sync["display"].at = "idle"
                              /\ current_render_target = NoSurface
                              /\ Cardinality(pending) < MaxAhead
                              /\ picture[sync["decode"].surface] # pictures
                              /\ BufferFirst => slice_buf.picture = pictures + 1
                              /\ sync["decode"].at = "idle"
                                   => sync["decode"].surface \notin pending
  /\ current_render_target # NoSurface => Cardinality(pending) < MaxAhead

(* Each surface has a picture of its own, and the last two are there.      *)
PicturesInOrder ==
  /\ \A s \in Surfaces : picture[s] <= pictures
  /\ \A s, x \in Surfaces : picture[s] = picture[x] /\ picture[s] > 0 => s = x
  /\ pictures > 0 => \E s \in Surfaces : picture[s] = pictures
  /\ current_render_target # NoSurface =>
       /\ pictures > 0 /\ picture[current_render_target] = pictures
       /\ pictures > 1 => \E s \in Surfaces : picture[s] = pictures - 1
  /\ \A s \in Surfaces : picture[s] > 0 => input_buf_index[s] = Slot(picture[s])
  /\ num_rendered_surfaces % INPUT_BUFFERS_NB = pictures % INPUT_BUFFERS_NB

PendingInOrder ==
  /\ IsFiniteSet(pending)
  /\ Cardinality(pending) <= Submitted
  /\ \A s \in Surfaces : s \in pending <=> picture[s] \in First .. Submitted

QueuesInOrder ==
  /\ Len(out.fifo) =
       Cardinality(pending) - (IF SyncAt({"ready", "dqcap", "throw"}) THEN 1 ELSE 0)
  /\ Len(cap.fifo) =
       Cardinality(pending) - (IF SyncAt({"throw"}) THEN 1 ELSE 0)
                            + (IF decode_pc = "qout" THEN 1 ELSE 0)
  /\ cap.done = out.done + (IF SyncAt({"ready", "dqcap"}) THEN 1 ELSE 0)
  /\ \A k \in 1 .. Len(out.fifo) : out.fifo[k] = Slot(Submitted - Len(out.fifo) + k)
  /\ \A k \in 1 .. Len(cap.fifo) : picture[cap.fifo[k]] = LastFrame - Len(cap.fifo) + k

(* A sync is one of the oldest pending surface.                            *)
SyncsInOrder ==
  \A t \in Threads :
    /\ sync[t].at # "idle" => /\ sync[t].surface \in pending
                              /\ picture[sync[t].surface] = First
    /\ sync[t].at = "throw" => sync[t].buf = sync[t].surface
    /\ sync[t].at = "dqout" /\ Timely => CanDequeue(out)

(* A surface is Rendering from BeginPicture until its sync has marked it.  *)
Synced(s) ==
  \E t \in Threads : sync[t].at \in {"dqcap", "throw"} /\ sync[t].surface = s

StatusInOrder ==
  \A s \in Surfaces :
    status[s] = IF s = current_render_target \/ (s \in pending /\ ~Synced(s))
                  THEN "Rendering" ELSE "Ready"

(* The reference of picture p: the surface of the picture before it, with  *)
(* its frame once that is decoded.                                         *)
RightReference(p, r) ==
  p > 1 => /\ r \in Surfaces
           /\ picture[r] # p
           /\ IF p = NextDecoded THEN frame[r] = p - 1 ELSE picture[r] = p - 1

RightHeader(p, hdr) ==
  hdr.param = p /\ hdr.slice = p /\ RightReference(p, hdr.ref)

RightInput(p) == input[Slot(p)] = p /\ RightHeader(p, ctrl[Slot(p)])

(* What of the picture being rendered has been rendered is in place, and   *)
(* the input buffer of a picture that waits has all of it.                 *)
DataInOrder ==
  /\ input[slice_buf.slot] = slice_buf.picture
  /\ decode_pc = "idle" /\ current_render_target # NoSurface =>
       /\ "sliceData" \in rendered => /\ slice_buf.picture = pictures
                                      /\ input[Slot(pictures)] = pictures
       /\ (IF Profile = "MPEG2" THEN "sliceData" ELSE "sliceParam") \in rendered
            => frame_hdr.slice = pictures
       /\ "picParam" \in rendered => /\ frame_hdr.param = pictures
                                     /\ RightReference(pictures, frame_hdr.ref)
  /\ decode_pc \in {"qcap", "qout"} => RightInput(pictures)
  /\ \A p \in NextDecoded .. Submitted : RightInput(p)

(* A frame that is decoded is the picture of its surface.                  *)
FramesInOrder == \A s \in Surfaces : picture[s] < NextDecoded => frame[s] = picture[s]

(***************************************************************************)
(* Pictures go through the driver and the device in the order in which     *)
(* they were begun.                                                        *)
(***************************************************************************)
InOrder ==
  /\ CallsInOrder
  /\ PicturesInOrder
  /\ PendingInOrder
  /\ QueuesInOrder
  /\ SyncsInOrder
  /\ StatusInOrder
  /\ DataInOrder
  /\ FramesInOrder
=============================================================================
