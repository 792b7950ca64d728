---------------------------- MODULE MCStreamSink ----------------------------
(* StreamSink for TLC: one browser per strategy and fallback. *)
EXTENDS StreamSink

\* Firefox, Chrome on Android, desktop Chrome, Safari, and a browser with
\* neither a worker nor device storage.
MCPlatforms ==
    {{"controller"}, {"controller", "hasOPFS"}, {"hasSavePicker", "hasOPFS"},
     {"isSafari", "hasOPFS", "controller"}, {}}
=============================================================================
