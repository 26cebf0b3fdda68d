----------------------------- MODULE MCStreaming -----------------------------
(* Sources for Streaming: pictures of many sizes turned in every way, and  *)
(* the other things a source can be rejected for.                          *)
EXTENDS Streaming

CONSTANTS k1, k2

Video(size, codec, side, tag) ==
  [type |-> "video", codec |-> codec, width |-> size[1], height |-> size[2],
   duration |-> 7, side |-> side, tag |-> tag]

Audio == [type |-> "audio", codec |-> "aac", width |-> 0, height |-> 0,
          duration |-> 7, side |-> << >>, tag |-> << >>]

SourceOf(streams, duration, container, purpose, declared) ==
  [out |-> [streams |-> streams, duration |-> duration,
            container |-> container],
   purpose |-> purpose, declared |-> declared]

Mov == {"mov", "mp4"}

Plain == Video(<<854, 480>>, "h264", << >>, << >>)

Sizes == { <<1920, 1080>>, <<1366, 768>>, <<640, 360>>, <<641, 361>>,
           <<640, 359>>, <<640, 200>>, <<360, 640>>, <<720, 1280>>,
           <<4096, 2160>>, <<853, 1079>> }

(* No turn; tags and matrices of a quarter, one between two quarters, a    *)
(* half, negative ones and more than a full turn; a matrix and a tag.      *)
Turns == { << << >>, << >> >>, << << >>, <<450>> >>, << << >>, <<-90>> >>,
           << << >>, <<-45>> >>, << <<-90>>, << >> >>, << <<810>>, << >> >>,
           << <<180>>, << >> >>, << <<-450, 90>>, <<180>> >> }

Turned ==
  { SourceOf(<<Audio, Video(size, "h264", turn[1], turn[2])>>, 7, Mov, "FILM",
             "video/mp4") : size \in Sizes, turn \in Turns }

Odd ==
  { SourceOf(<<Audio>>, 7, Mov, "FILM", "video/mp4"),
    SourceOf(<<Plain, Video(<<100, 100>>, "mjpeg", << >>, << >>)>>, 0, Mov,
             "PITCH", "video/mp4"),
    SourceOf(<<[Plain EXCEPT !.duration = 0]>>, 0, Mov, "FILM", "video/mp4"),
    SourceOf(<<[Plain EXCEPT !.codec = "mjpeg"]>>, 7, Mov, "FILM", "video/mp4"),
    SourceOf(<<Plain>>, 7, {"avi"}, "FILM", "video/mp4"),
    SourceOf(<<Plain>>, 7, {"avi"}, "FILM", "video/x-flv") }
  \cup { SourceOf(<<Plain>>, duration, Mov, purpose, "video/mp4") :
           duration \in {300, 301, 3600, 3601}, purpose \in {"PITCH", "FILM"} }

MCSource == Turned \cup Odd
=============================================================================
