----------------------------- MODULE MCTranscriptIngest -----------------------------
EXTENDS TranscriptIngest, TLC
MCScript == {<<"user", "reply", "user">>, <<"other", "noise">>}
MCTogether == {{"watch", "job"}, {"hook", "backfill"}}
=============================================================================
