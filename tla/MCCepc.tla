------------------------------- MODULE MCCepc -------------------------------
(* loadcepc used for one of its two purposes, again and again: to load an  *)
(* image, or to copy files from the host; and the calls to the host both   *)
(* are made of, by themselves.                                             *)
(* Load: every image of up to two sections of up to three bytes inside,    *)
(* astride and outside a block of six bytes, overlapping or not, and       *)
(* sections so large that their end wraps; chunks of two bytes.            *)
(* Tool: two files that the host rewrites at three later times, two of     *)
(* them within the two seconds of the local disk.                          *)
(* Link: ropen, rclose, rfindfirst and rread of a file of three bytes, by  *)
(* one or two chunks.                                                      *)
EXTENDS CepcLoad, CepcTool, PpfsLink, TLC

CONSTANT Programs

VARIABLE program

MCSections == [addr : {2, 4, 5, 7, 8, 9}, size : {0, 1, 2, 3, 12}]
MCImages == {<<>>} \cup {<<s>> : s \in MCSections} \cup (MCSections \X MCSections)

MCReplies == (0 :> {1, 8}) @@ (1 :> {0})
MCFile == <<2, 5, 1>>

Init == LoadInit /\ ToolInit /\ LinkInit /\ program \in Programs

Next ==
  /\ UNCHANGED program
  /\ \/ program = "load" /\ LoadNext /\ UNCHANGED <<toolVars, linkVars>>
     \/ program = "tool" /\ ToolNext /\ UNCHANGED <<loadVars, linkVars>>
     \/ program = "link" /\ LinkNext /\ UNCHANGED <<loadVars, toolVars>>

Spec ==
  /\ Init /\ [][Next]_<<program, loadVars, toolVars, linkVars>>
  /\ WF_loadVars(program = "load" /\ source = "file" /\ LoadStep)
  /\ WF_linkVars(program = "link" /\ CallStep)

(* Every load of an image ends, with the processor sent to it or back in   *)
(* DOS, and every call to a host that is lost in the middle returns.       *)
CommandEnds == LoadEnds /\ LostHostEndsCall
=============================================================================
