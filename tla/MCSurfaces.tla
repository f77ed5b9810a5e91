----------------------------- MODULE MCSurfaces -----------------------------
(* Two memories of one type and one of another, in three projects: ranked  *)
(* types, types of the safety floor, and reports with a stranger.          *)
EXTENDS Surfaces

Is(t, own, rank, complete) == [type |-> t, own |-> own, rank |-> rank, complete |-> complete]
MCCasts ==
  {<<Is("fact", TRUE, 1, TRUE), Is("fact", TRUE, 0, FALSE), Is("open_question", TRUE, 0, TRUE)>>,
   <<Is("risk", TRUE, 1, FALSE), Is("risk", TRUE, 0, TRUE), Is("decision", TRUE, 2, TRUE)>>,
   <<Is("report", TRUE, 1, TRUE), Is("open_question", TRUE, 1, TRUE), Is("decision", FALSE, 1, TRUE)>>}

Row(s, updated) == [status |-> s, updated |-> updated]
MCSeeds ==
  {<<Row("draft", 1), Row("verified", 0), None>>, <<Row("verified", 1), Row("draft", 1), Row("open", 1)>>,
   <<Row("open", 0), Row("draft", 1), Row("draft", 1)>>, <<Row("draft", 1), Row("open", 1), Row("accepted", 1)>>,
   <<Row("published", 1), Row("answered", 1), Row("accepted", 1)>>}

MCPairs == {<<1, 2>>, <<3, 1>>}
=============================================================================
