------------------------- MODULE MCWebSocketSession -------------------------
(***************************************************************************)
(* Text frames with lengths of each form, control frames, and frames of    *)
(* each kind that ends a connection.                                       *)
(***************************************************************************)
EXTENDS WebSocketSession, TLC

Frame(first, flag, form, payload) ==
  [first |-> first, flag |-> flag, form |-> form, mask |-> <<7, 130, 0, 255>>, payload |-> payload]

MCTypeOf ==
  <<1, 2, 3, 4, 5>>    :> "AuthRequest" @@ <<200>> :> "Pong" @@ <<3>> :> "CreateMatch"
  @@ <<>>              :> "Malformed"
  @@ <<1>>             :> "Malformed"
  @@ <<1, 2, 3, 4, 5, 6>> :> "Malformed"

MCFrames ==
  {Frame(129, 128, 0, <<1, 2, 3, 4, 5>>),
   Frame(129, 128, 2, <<200>>),
   Frame(129, 128, 0, <<3>>),
   Frame(209, 128, 0, <<3>>),                       \* text, with a reserved bit
   Frame(129, 128, 8, <<>>),                        \* text, the longest form for the shortest
   Frame(137, 128, 0, <<9>>),                       \* ping
   Frame(136, 128, 0, <<>>),                        \* close
   Frame(1, 128, 0, <<1>>),                         \* a fragment
   Frame(129, 0, 0, <<1>>),                         \* not masked
   Frame(130, 128, 0, <<1>>),                       \* binary
   Frame(129, 128, 0, <<1, 2, 3, 4, 5, 6>>)}        \* too long
=============================================================================
