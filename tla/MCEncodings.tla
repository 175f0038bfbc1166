---------------------------- MODULE MCEncodings ----------------------------
(***************************************************************************)
(* The constants of Encodings for TLC: bytes of three bits, words of three *)
(* bytes and a six-letter alphabet keep the proportions of 8, 64 and 58,   *)
(* that is 6^3 < 8^3 < 5 * 6^3 as 58^10 < 2^64 < 57 * 58^10: the last      *)
(* digit of a block may fill the word or not; and 9 = 4 * 2 + 1 as         *)
(* 64 = 9 * 7 + 1: the last byte of the longest varint has one bit.        *)
(***************************************************************************)
EXTENDS Encodings

Sizes == <<0, 2, 3, 4>>
Instance == <<1>>
=============================================================================
