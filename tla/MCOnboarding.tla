---------------------------- MODULE MCOnboarding ----------------------------
(* Two runs of the seed with two system accounts each, a deposit that      *)
(* touches the treasury first, and two people who type the admin's address *)
(* in two ways: all that can meet does meet.                               *)
EXTENDS Onboarding

CONSTANTS a1, a2, b1, b2, u1, s1, s2, jane, john,
          Treasury, Hold, Address, AddressUpper

MCKeyOf == [c \in Call |-> IF c \in {a2, b2} THEN Hold ELSE Treasury]
MCEmailOf == [p \in Person |-> IF p = jane THEN AddressUpper ELSE Address]
MCLoginAs == [p \in Person |-> IF p = jane THEN Address ELSE AddressUpper]
MCLower == [e \in Spelling |-> Address]
MCSeedCalls == [s \in Seed |-> IF s = s1 THEN <<a1, a2>> ELSE <<b1, b2>>]
=============================================================================
