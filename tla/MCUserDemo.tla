----------------------------- MODULE MCUserDemo -----------------------------
EXTENDS UserDemo

MCMessage == <<"O", "K">>
=============================================================================
