---------------------------- MODULE MCChatServer ----------------------------
(* A small instance of ChatServer: clients, rooms and names are few, every  *)
(* number of places from 0 to one too many is asked for.                    *)
EXTENDS ChatServer, TLC

CONSTANTS alice, bob, red, blue, pw1, pw2

\* Users, room names and passwords are only compared with one another.
Symmetry == Permutations({alice, bob}) \cup Permutations({red, blue})
              \cup Permutations({pw1, pw2})
=============================================================================
