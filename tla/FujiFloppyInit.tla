---------------------------- MODULE FujiFloppyInit ----------------------------
(***************************************************************************)
(* Connecting to the FujiNet, fujiOpen in FujiCommon/FujiFloppyInit.c.     *)
(*                                                                         *)
(* fujiOpen opens a file on a volume, reads a sequence of sectors (the     *)
(* knock) that makes a FujiNet answer in the sector tags, writes a request *)
(* into the file, reads back the address at which the FujiNet wants to be  *)
(* talked to, and stores it in the connection block.  Each call to the     *)
(* system is a step, which may fail; between two steps the VBL task of a   *)
(* driver that is already open may read and write the device.              *)
(***************************************************************************)
EXTENDS Naturals

CONSTANTS
    Volumes,     \* mounted volumes
    FujiVolumes, \* those that a FujiNet serves
    Tagless,     \* those whose disk driver leaves the tag buffer alone
    NoVolume,    \* the zero reference number
    KnockLen     \* length of the knock (MAC_FUJI_KNOCK_LEN)

ASSUME VolumesAssumption ==
    /\ FujiVolumes \subseteq Volumes
    /\ Tagless \subseteq Volumes \ FujiVolumes
    /\ NoVolume \notin Volumes
ASSUME KnockAssumption == KnockLen \in Nat \ {0}

VARIABLES
    pc,       \* the next step of fujiOpen
    target,   \* the volume that it was given
    knocks,   \* knocks sent in this attempt
    err,      \* TRUE when the last call, in the end fujiOpen itself, failed
    conn,     \* struct FujiConData: fRefNum, ioRefNum, ioPosOffset
    files,    \* volumes on which the device file is open
    tag,      \* BufTgFNum, the tag of the last sector read
    vbl,      \* TRUE when .Fuji has been opened: the VBL task runs
    heard,    \* history: the FujiNet answered the knock of this attempt
    trouble   \* history: a call failed, or the FujiNet kept silent, in this attempt

connVars == <<pc, target, knocks, err, conn, files, tag, vbl, heard, trouble>>

\* fujiInit
NoConn == [fRefNum |-> NoVolume, ioRefNum |-> NoVolume, ioPosOffset |-> NoVolume]

\* fujiReady
Ready == conn.ioRefNum # NoVolume

ConnInit ==
    /\ pc = "idle" /\ target = NoVolume /\ knocks = 0 /\ err = FALSE
    /\ conn = NoConn /\ files = {} /\ tag = "other" /\ vbl = FALSE
    /\ heard = FALSE /\ trouble = FALSE

-----------------------------------------------------------------------------
(***************************************************************************)
(* fujiOpen.                                                               *)
(***************************************************************************)

Goto(label) == pc' = label /\ err' = FALSE
Return == pc' = "done" /\ err' = TRUE

\* A call that fails makes fujiOpen return.
Trouble ==
    /\ Return
    /\ trouble' = TRUE
    /\ UNCHANGED <<target, knocks, conn, files, tag, vbl, heard>>

StartOpen(v) ==
    /\ Goto("drive")
    /\ target' = v /\ knocks' = 0 /\ heard' = FALSE /\ trouble' = FALSE
    /\ UNCHANGED <<conn, files, tag, vbl>>

\* getDriveAndDrvr
FindDrive ==
    /\ pc = "drive"
    /\ \/ /\ Goto("create")
          /\ UNCHANGED <<target, knocks, conn, files, tag, vbl, heard, trouble>>
       \/ Trouble

\* Create; that the file exists already is no error.
CreateFile ==
    /\ pc = "create"
    /\ \/ /\ Goto("open")
          /\ UNCHANGED <<target, knocks, conn, files, tag, vbl, heard, trouble>>
       \/ Trouble

\* PBOpenSync for writing.  A file that is open for writing can not be opened
\* so again (opWrErr).
OpenFile ==
    /\ pc = "open"
    /\ \/ /\ target \notin files
          /\ files' = files \cup {target}
          /\ conn' = [conn EXCEPT !.fRefNum = target]
          /\ Goto("cache")
          /\ UNCHANGED <<target, knocks, tag, vbl, heard, trouble>>
       \/ /\ target \in files
          /\ Return
          /\ UNCHANGED <<target, knocks, conn, files, tag, vbl, heard, trouble>>
       \/ Trouble

\* sonyTrackCacheControl.  An error is not returned, but as err is set the
\* loop that knocks is not entered.
DisableCache ==
    /\ pc = "cache"
    /\ \/ Goto("knock") /\ UNCHANGED trouble
       \/ pc' = "tag" /\ err' = TRUE /\ trouble' = TRUE
    /\ UNCHANGED <<target, knocks, conn, files, tag, vbl, heard>>

\* What the tag buffer holds after a sector of the target has been read; a
\* FujiNet may answer the last knock.
Answers == IF target \in Tagless THEN {tag}
           ELSE IF target \in FujiVolumes /\ knocks + 1 = KnockLen
                THEN {"FUJI", "other"} ELSE {"other"}

\* The end of the loop that knocks.  (Mutant: one round too many.)
OverKnock == knocks = KnockLen
LastKnock == knocks + 1 = KnockLen

Knock ==
    /\ pc = "knock"
    /\ \/ /\ knocks' = knocks + 1
          /\ tag' \in Answers
          /\ heard' = (target \in FujiVolumes /\ tag' = "FUJI")
          /\ Goto(IF LastKnock THEN "tag" ELSE "knock")
          /\ trouble' = (trouble \/ (LastKnock /\ ~heard'))
          /\ UNCHANGED <<target, conn, files, vbl>>
       \/ Trouble

\* Did we get a FujiNet reply?
CheckTag ==
    /\ pc = "tag"
    /\ IF tag = "FUJI" THEN Goto("write") ELSE Return
    /\ UNCHANGED <<target, knocks, conn, files, tag, vbl, heard, trouble>>

\* FSWrite of the request into the file.
WriteRequest ==
    /\ pc = "write"
    /\ \/ /\ Goto("readback")
          /\ UNCHANGED <<target, knocks, conn, files, tag, vbl, heard, trouble>>
       \/ Trouble

\* What is at the start of the file then: the FujiNet that was listening puts
\* its reply there, anyone else keeps the request.
ReadBacks == IF heard THEN {"FUJI", "NDEV"} ELSE {"NDEV"}

\* The reply tag.  (Mutant: whatever was read is taken for a reply.)
IsAnything(value) == value \in {"FUJI", "NDEV"}
IsReply(value) == value = "FUJI"

\* SetFPos, FSRead and the check of the reply.
ReadReply ==
    /\ pc = "readback"
    /\ \/ \E value \in ReadBacks :
            /\ IF IsReply(value) THEN Goto("refnum") ELSE Return
            /\ trouble' = (trouble \/ value = "NDEV")
            /\ UNCHANGED <<target, knocks, conn, files, tag, vbl, heard>>
       \/ Trouble

\* The connection block is filled in from the first field to the last.
SetRefNum ==
    /\ pc = "refnum"
    /\ conn' = [conn EXCEPT !.ioRefNum = target]
    /\ Goto("offset")
    /\ UNCHANGED <<target, knocks, files, tag, vbl, heard, trouble>>

SetOffset ==
    /\ pc = "offset"
    /\ conn' = [conn EXCEPT !.ioPosOffset = target]
    /\ Goto("driver")
    /\ UNCHANGED <<target, knocks, files, tag, vbl, heard, trouble>>

\* The driver's doOpen lets a port open, and starts the VBL task, when the
\* connection block has a driver reference number.  (Mutant: in any case.)
AlwaysMayOpen == TRUE
MayOpen == Ready

\* OpenDriver of .Fuji; its result is fujiOpen's.
OpenMain ==
    /\ pc = "driver"
    /\ \/ /\ MayOpen
          /\ vbl' = TRUE
          /\ pc' = "done" /\ err' = FALSE
          /\ UNCHANGED <<target, knocks, conn, files, tag, heard, trouble>>
       \/ Trouble

FujiOpen ==
    \/ FindDrive \/ CreateFile \/ OpenFile \/ DisableCache \/ Knock \/ CheckTag
    \/ WriteRequest \/ ReadReply \/ SetRefNum \/ SetOffset \/ OpenMain

\* The VBL task reads, or writes, a sector of the connected device.
VblTraffic ==
    /\ vbl
    /\ tag' \in {"FUJI", "other"}
    /\ UNCHANGED <<pc, target, knocks, err, conn, files, vbl, heard, trouble>>
=============================================================================
