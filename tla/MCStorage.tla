----------------------------- MODULE MCStorage ------------------------------
(***************************************************************************)
(* Storage with up to three payloads: text cut into chunks (one chunk      *)
(* twice), an icon whose few bytes may also arrive as a blob, and a photo  *)
(* whose many bytes may also arrive as a blob, which then shares a chunk   *)
(* with the text.                                                          *)
(***************************************************************************)
EXTENDS Storage

CONSTANTS text, icon, photo, x, y

MCForms == [h \in Payloads |-> CASE h = text  -> {"chunked"}
                                 [] h = icon  -> {"inline", "image"}
                                 [] h = photo -> {"chunked", "image"}]
MCChunks == [h \in Payloads |-> CASE h = text  -> <<x, y, x>>
                                  [] h = icon  -> <<>>
                                  [] h = photo -> <<y>>]
=============================================================================
