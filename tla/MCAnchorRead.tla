---------------------------- MODULE MCAnchorRead ----------------------------
(* Two transactions whose ids are each other's reverse, with up to two       *)
(* outputs each, on a chain of three blocks.                                 *)
EXTENDS AnchorRead

MCTxids == {1, -1}

\* One output of every kind, and pairs of which one is a timestamp.
MCContents ==
  LET one(m) == [memo |-> m, db |-> TRUE]
      unseen == [memo |-> "c1", db |-> FALSE]
  IN {<<one("c1")>>, <<unseen>>, <<one("none"), one("c1")>>, <<one("plain"), one("c2")>>,
      <<one("other"), one("c1")>>, <<one("c2"), one("plain")>>, <<one("c1"), one("c2")>>,
      <<one("plain"), one("none")>>}
=============================================================================
