----------------------------- MODULE MCDocument -----------------------------
(***************************************************************************)
(* One run for the components that keep and read the document: the song    *)
(* and what the flattener makes of it, the plug-ins its instruments host,  *)
(* its file and its bundle, and the list of plug-ins. They share no state  *)
(* here: a behaviour is one of the component `part` names, chosen at the   *)
(* start, while the others stay as they are.                               *)
(***************************************************************************)
EXTENDS MCArrangement, Hosting, MCProjectFile, ProjectSave, Scanner

VARIABLE part

Parts == {"song", "hosting", "file", "save", "scan"}
everything == <<part, arrangementVars, hostVars, fileVars, saveVars, scanVars>>

\* A project without notes or clips.
BlankSong == [Song(<<>>, 0, 0) EXCEPT !.points = {}, !.clips = <<>>]

\* A bundle with no plug-in, one, two, and two of which one does not introspect.
MCContents == {<<>>, <<TRUE>>, <<TRUE, TRUE>>, <<TRUE, FALSE>>}

FirstOutput == CHOOSE output \in Outputs : TRUE

\* The parts left out start in one of their states.
DocumentInit ==
  /\ part \in Parts
  /\ IF part = "song" THEN ArrangementInit ELSE song = BlankSong /\ song_edits = 0
  /\ IF part = "file" THEN FileInit
     ELSE file = Intact(FirstOutput) /\ session = NoSession /\ residue = NoResidue /\ deleted = {}
  /\ HostingInit /\ SaveInit /\ ScannerInit
  /\ part # "save" => ~windows
  /\ part # "scan" => introspects

DocumentNext ==
  \/ /\ part = "song" /\ ArrangementNext
     /\ UNCHANGED <<part, hostVars, fileVars, saveVars, scanVars>>
  \/ /\ part = "hosting" /\ HostingNext
     /\ UNCHANGED <<part, arrangementVars, fileVars, saveVars, scanVars>>
  \/ /\ part = "file" /\ FileNext
     /\ UNCHANGED <<part, arrangementVars, hostVars, saveVars, scanVars>>
  \/ /\ part = "save" /\ SaveNext
     /\ UNCHANGED <<part, arrangementVars, hostVars, fileVars, scanVars>>
  \/ /\ part = "scan" /\ ScannerNext
     /\ UNCHANGED <<part, arrangementVars, hostVars, fileVars, saveVars>>

DocumentSpec == DocumentInit /\ [][DocumentNext]_everything
=============================================================================
