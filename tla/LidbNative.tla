----------------------------- MODULE LidbNative -----------------------------
(***************************************************************************)
(* How a server comes to poll lidb itself (routes/realtime/lidb_native.py):*)
(* what the environment and the library on disk make of _native_mode.      *)
(***************************************************************************)

(***************************************************************************)
(* An environment e has e.native, the value of LI_CHANGEFEED_NATIVE ("1",  *)
(* "0" or "subprocess"), and e.lib, the library: "absent", "broken" (it    *)
(* does not load or opens nothing) or "opens".                             *)
(***************************************************************************)
native_poll_enabled(e) == e.native # "0"

use_subprocess_poll(e) == e.native = "subprocess"

discover_lidb_changefeed_lib(e) == e.lib # "absent"

try_open_native(e) ==
  native_poll_enabled(e) /\ discover_lidb_changefeed_lib(e) /\ e.lib = "opens"

\* ChangefeedSource.__init__: the helper process is not tried before it is used.
NativeMode(e) ==
  IF ~native_poll_enabled(e) THEN "off"
  ELSE IF use_subprocess_poll(e) /\ discover_lidb_changefeed_lib(e) THEN "subprocess"
  ELSE IF try_open_native(e) THEN "ctypes" ELSE "off"
=============================================================================
