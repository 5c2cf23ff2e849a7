----------------------------- MODULE MCFieldEntry -----------------------------
(* Model values for checking FieldEntry: every body of up to 3 byte      *)
(* classes, thresholds 0 to 2 and size limits below, at and above them,   *)
(* so bodies fit, fill the buffer exactly, or spill by one and more; the  *)
(* OS temporary directory /tmp, a caller directory /srv/up and a caller   *)
(* path in it.                                                           *)
EXTENDS FieldEntry

MCContents   == BoundedSeq({"a", "h", "t"}, 3)
MCSizeLimits == {None, 0, 1, 2, 3}
MCThresholds == {0, 1, 2}
MCTempDir    == <<"tmp">>
MCDirs       == {<<"srv", "up">>}
MCPaths      == {<<"srv", "up", "f">>}
(* The other request's body: longer than any field body here, so a file  *)
(* it wrote to is never mistaken for the field's.                        *)
MCRivalBodies == {<<"a", "a", "a", "a">>}
(* mod_open_opts(|o| { o.truncate(true); }): create_new still wins.       *)
MCOpenOpts   == ModOpenOpts(DefaultOpenOptions, [truncate |-> TRUE])
=============================================================================
