----------------------------- MODULE StreamPlan -----------------------------
(***************************************************************************)
(* What a transcode worker decides about a source before and after it runs *)
(* ffmpeg: internal/media/transcode, the files probe.go, ladder.go and     *)
(* master.go. All of it is computed, nothing here has state.               *)
(*                                                                         *)
(* Numbers that are text or floats in the code are integers: seconds,      *)
(* pixels, degrees and kbit/s. A source is what ffprobe prints about it:   *)
(* streams, a duration and a container (Output), where side holds the      *)
(* rotations of side_data_list in their order, tag the rotate tag if there *)
(* is one, and container the format names.                                 *)
(*                                                                         *)
(* A definition Name_Something beside Name is a faulty variant of it and   *)
(* takes no part in the specification.                                     *)
(***************************************************************************)
EXTENDS Integers, Sequences, FiniteSets, SequencesExt

(* What ffprobe may print, and what the client said about the file.        *)
Stream == [type : STRING, codec : STRING, width : Int, height : Int,
           duration : Int, side : Seq(Int), tag : Seq(Int)]

Output == [streams : Seq(Stream), duration : Int, container : SUBSET STRING]

(* probe.go, the rotation. Go's remainder has the sign of its dividend.    *)
Remainder(r) == IF r < 0 THEN -((-r) % 360) ELSE r % 360

QuarterTurn(r) == IF r \in {90, 180, 270} THEN r ELSE 0

NormaliseRotation_Signed(r) == QuarterTurn(Remainder(r))

NormaliseRotation(r) ==
  QuarterTurn(IF Remainder(r) < 0 THEN Remainder(r) + 360 ELSE Remainder(r))

(* The display matrix counts the other way round, and has precedence.      *)
ParseRotation(s) ==
  IF s.side # << >> THEN NormaliseRotation(-Head(s.side))
  ELSE IF s.tag # << >> THEN NormaliseRotation(Head(s.tag)) ELSE 0

(* The first video stream counts, cover art comes later. Its duration is   *)
(* taken when the container does not say one.                              *)
ParseProbe(out) ==
  LET videos == { i \in DOMAIN out.streams : out.streams[i].type = "video" }
      v      == out.streams[Min(videos)]
  IN IF videos = {}
     THEN [video |-> FALSE, codec |-> "", width |-> 0, height |-> 0,
           rotation |-> 0, duration |-> out.duration,
           container |-> out.container]
     ELSE [video |-> TRUE, codec |-> v.codec, width |-> v.width,
           height |-> v.height, rotation |-> ParseRotation(v),
           duration |-> IF out.duration = 0 THEN v.duration
                        ELSE out.duration,
           container |-> out.container]

DisplayDimensions(p) ==
  IF p.rotation \in {90, 270} THEN <<p.height, p.width>>
                              ELSE <<p.width, p.height>>

----------------------------------------------------------------------------
(* probe.go, the reasons to reject a source, in the order of the checks.   *)

Decodable == {"h264", "hevc", "vp8", "vp9", "av1", "mpeg4", "mpeg2video",
              "prores", "dnxhd", "theora", "wmv3", "vc1"}

ContentTypeFormats ==
  { <<"video/mp4",        {"mp4", "mov", "m4a", "isom"}>>,
    <<"video/quicktime",  {"mov", "mp4"}>>,
    <<"video/x-matroska", {"matroska", "webm"}>>,
    <<"video/webm",       {"webm", "matroska"}>>,
    <<"video/mpeg",       {"mpeg", "mpegts", "mpegvideo"}>>,
    <<"video/x-msvideo",  {"avi"}>>,
    <<"video/avi",        {"avi"}>> }

(* A declared type that is not known here is let through.                  *)
FormatMatches(container, declared) ==
  \A row \in ContentTypeFormats :
    row[1] = declared => container \cap row[2] # {}

Fails_WidthOnly(p, purpose, declared) ==
  [no_video_stream         |-> ~p.video,
   undeterminable_duration |-> p.duration <= 0,
   pitch_too_long          |-> purpose = "PITCH" /\ p.duration > 300,
   too_long                |-> purpose # "PITCH" /\ p.duration > 3600,
   resolution_too_low      |-> DisplayDimensions(p)[1] < 640,
   unsupported_codec       |-> p.codec \notin Decodable,
   content_type_mismatch   |-> ~FormatMatches(p.container, declared)]

Fails(p, purpose, declared) ==
  [no_video_stream         |-> ~p.video,
   undeterminable_duration |-> p.duration <= 0,
   pitch_too_long          |-> purpose = "PITCH" /\ p.duration > 300,
   too_long                |-> purpose # "PITCH" /\ p.duration > 3600,
   resolution_too_low      |-> \/ DisplayDimensions(p)[1] < 640
                               \/ DisplayDimensions(p)[2] < 360,
   unsupported_codec       |-> p.codec \notin Decodable,
   content_type_mismatch   |-> ~FormatMatches(p.container, declared)]

Checks == <<"no_video_stream", "undeterminable_duration", "pitch_too_long",
            "too_long", "resolution_too_low", "unsupported_codec",
            "content_type_mismatch">>

(* The first reason that applies; "none" accepts.                          *)
Validate(p, purpose, declared) ==
  LET failed == { i \in DOMAIN Checks : Fails(p, purpose, declared)[Checks[i]] }
  IN IF failed = {} THEN "none" ELSE Checks[Min(failed)]

----------------------------------------------------------------------------
(* ladder.go and master.go.                                                *)

Rung(name, height, video, peak, audio) ==
  [name |-> name, height |-> height, video |-> video, peak |-> peak,
   audio |-> audio]

FullLadder ==
  << Rung("1080p", 1080, 5000, 5350, 128), Rung("720p", 720, 2800, 2996, 128),
     Rung("480p", 480, 1400, 1498, 96),    Rung("360p", 360, 800, 856, 64),
     Rung("240p", 240, 400, 428, 48) >>

PeakBandwidth(r) == r.peak + r.audio

(* Never upscale: the rungs fall, those that fit are the last ones. A      *)
(* source below every rung gets the lowest.                                *)
LadderFor(height) ==
  LET fit == { i \in DOMAIN FullLadder : FullLadder[i].height <= height }
  IN IF fit = {} THEN <<Last(FullLadder)>>
     ELSE SubSeq(FullLadder, Min(fit), Len(FullLadder))

Width_Odd(r, w, h) == IF h = 0 THEN 0 ELSE (r.height * w) \div h

(* The even width that goes with a rung's height.                          *)
Width(r, w, h) == IF h = 0 THEN 0 ELSE 2 * ((r.height * w) \div (2 * h))

(* Those that a stable sort by falling bandwidth puts before ladder[i].     *)
Before(ladder, i) ==
  { k \in DOMAIN ladder :
      \/ PeakBandwidth(ladder[k]) > PeakBandwidth(ladder[i])
      \/ PeakBandwidth(ladder[k]) = PeakBandwidth(ladder[i]) /\ k < i }

Sorted(ladder) ==
  [n \in DOMAIN ladder |->
     ladder[CHOOSE i \in DOMAIN ladder : Cardinality(Before(ladder, i)) = n - 1]]

(* The master playlist: the variants by falling bandwidth, each with the   *)
(* picture size it announces.                                              *)
MasterPlaylist(ladder, w, h) ==
  LET sorted == Sorted(ladder)
  IN [i \in DOMAIN sorted |-> [rung   |-> sorted[i].name,
                               width  |-> Width(sorted[i], w, h),
                               height |-> sorted[i].height]]
=============================================================================
