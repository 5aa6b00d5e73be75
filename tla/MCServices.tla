----------------------------- MODULE MCServices -----------------------------
(***************************************************************************)
(* One scene for each of the questions: pushes for two devices of a user   *)
(* and for two users, the cached list, the peer's presence, hidden or not, *)
(* the histories, the tables filled from the chain, typing and budgets.    *)
(***************************************************************************)
EXTENDS Services, TLC

CONSTANTS d1, d2, e1, e2

Nothing ==
  [owner |-> d1 :> "u1" @@ d2 :> "u1", online |-> {}, moves |-> FALSE, subscribed |-> <<>>,
   trouble |-> 0, restarts |-> 0,
   me |-> "none", posts |-> <<>>, settings |-> FALSE, renames |-> 0, mounts |-> 0, changes |-> 0,
   visible |-> TRUE, hides |-> FALSE,
   times |-> <<>>, ids |-> <<>>, edits |-> <<>>, page |-> 1, visits |-> 0, paged |-> "none",
   walks |-> FALSE,
   events |-> [transfer |-> <<>>, treasury |-> <<>>], members |-> <<>>,
   mishaps |-> 0, proposals |-> 0, asks |-> 0,
   keys |-> {}, typed |-> 0,
   nodes |-> {}, limit |-> 1, windows |-> 0, requests |-> 0, outages |-> FALSE, contacts |-> 0]

Push2Devices ==
  [Nothing EXCEPT !.posts = <<"c1", "c2">>, !.subscribed = e1 :> d1,
                  !.trouble = 1]
Push2Users ==
  [Nothing EXCEPT !.owner = d1 :> "u1" @@ d2 :> "u2", !.posts = <<"c1", "c1">>,
                  !.online = {d2}, !.moves = TRUE, !.subscribed = e1 :> d1,
                  !.trouble = 1, !.restarts = 1]
ListOfMe ==
  [Nothing EXCEPT !.me = "u1", !.online = {d1, d2}, !.posts = <<"c1">>,
                  !.settings = TRUE, !.mounts = 2, !.restarts = 1]
Renamed == [ListOfMe EXCEPT !.posts = <<>>, !.settings = FALSE, !.renames = 2]
Asked == [ListOfMe EXCEPT !.asks = 1, !.settings = FALSE, !.mounts = 1]
PeerOfMe ==
  [Nothing EXCEPT !.me = "u1", !.online = {d1, d2}, !.posts = <<"c1">>,
                  !.mounts = 1, !.changes = 4]
Hidden ==
  [Nothing EXCEPT !.me = "u1", !.online = {d1}, !.mounts = 1, !.changes = 3, !.hides = TRUE,
                  !.restarts = 1]
Paged ==
  [Nothing EXCEPT !.me = "u1", !.online = {d1, d2}, !.visits = 2, !.paged = "c1",
                  !.posts = <<"c1", "c1">>, !.times = <<1, 1>>, !.ids = <<1, 2>>]
PagedLate ==
  [Paged EXCEPT !.times = <<2, 1>>, !.visits = 1, !.page = 2, !.restarts = 1]
Walked ==
  [Nothing EXCEPT !.online = {d1, d2}, !.paged = "c1", !.posts = <<"c1", "c1", "c1", "c1">>,
                  !.times = <<1, 1, 2, 3>>, !.ids = <<2, 1, 3, 4>>, !.edits = <<0, 0, 2, 2>>,
                  !.walks = TRUE, !.restarts = 1]
Transfers ==
  [Nothing EXCEPT !.events.transfer = <<[tx |-> "t1", origin |-> "c1"], [tx |-> "t2", origin |-> "none"],
                                        [tx |-> "t1", origin |-> "c1"]>>,
                  !.members = [u1 |-> "c1", u2 |-> "c2"], !.mishaps = 1, !.restarts = 1]
Treasury ==
  [Nothing EXCEPT !.events.treasury = <<[id |-> 1, status |-> "active"], [id |-> 1, status |-> "approved"]>>,
                  !.members = [u1 |-> "c1"], !.mishaps = 1, !.proposals = 1]

Typist == [Nothing EXCEPT !.keys = {"c1", "c1:d1"}, !.typed = 3]
Budgets ==
  [Nothing EXCEPT !.nodes = {"n1", "n2"}, !.windows = 1, !.requests = 5, !.outages = TRUE]
Caps == [Nothing EXCEPT !.contacts = 4, !.restarts = 1]

AllScenes ==
  {Push2Devices, Push2Users, ListOfMe, Renamed, Asked, PeerOfMe, Hidden, Paged, PagedLate, Walked,
   Transfers, Treasury, Typist, Budgets, Caps}
=============================================================================
