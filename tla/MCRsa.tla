------------------------------- MODULE MCRsa -------------------------------
(* Rsa with a few letters, for TLC. *)
EXTENDS Rsa

\* The first printable character and the last, and multiples of p and of q,
\* which have no inverse modulo n: '!' and 'n', '.' and 's'.
MCLetters == {32, 126, 33, 110, 46, 115}
=============================================================================
