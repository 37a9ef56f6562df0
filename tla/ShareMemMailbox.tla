-------------------------- MODULE ShareMemMailbox --------------------------
(***************************************************************************)
(* sharemem.json implements Mailbox as long as no save overwrites what its *)
(* writer has not read: the echo of the DTU thread is the acknowledgement, *)
(* the write of a merged entry to the Zigbee port is the delivery, and as  *)
(* long as Send_Function waits for an answer to it, it may be repeated.    *)
(***************************************************************************)
EXTENDS ShareMem

Mail == INSTANCE Mailbox
          WITH Boxes <- Controllers, done <- executed, broken <- raced,
               message <- IF zwrites = 0 THEN NoEntry ELSE zentry,
               writes <- zwrites

(* Every step of the two threads and of the power supply is a step of the  *)
(* mailbox or leaves it alone: merging the commands of a box into one      *)
(* entry, walking a snapshot, writing it again as long as nothing answers  *)
(* and deleting the array afterwards never reorder or skip an echoed       *)
(* command, nor send it again behind another (Save_Control_To_Json,        *)
(* Get_Controller_Json_Data, Send_Function); and the loop of the Zigbee    *)
(* thread delivers whatever waits, unless a race has ended the promise.    *)
ImplementsMailbox == Mail!Spec
=============================================================================
