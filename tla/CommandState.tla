---------------------------- MODULE CommandState ----------------------------
(***************************************************************************)
(* Which commands are enabled: the "updateCommandsState" round trip.       *)
(*                                                                         *)
(* Ten times a second a timer of the frame makes a map with FALSE for      *)
(* every menu item and broadcasts it; Skin, Help and Frame put into it     *)
(* what they can do now.  The destructor of that message copies the map to *)
(* the menu and broadcasts the complete map once more, for the buttons.    *)
(*                                                                         *)
(* What a command does is kept as far as it changes what is enabled: the   *)
(* About dialog opens and closes, the skin is packed and unpacked.         *)
(***************************************************************************)
EXTENDS Naturals, Sequences, TLC

CONSTANTS
  MaxInputs,  \* bound: how many commands the user chooses
  Buttons     \* the commands of the buttons on the tool bar and the dialog

CommandAssumption ==
  /\ MaxInputs \in Nat
  /\ Buttons \subseteq {"import", "ok"}

VARIABLES
  posted,   \* broadcasts in the message queue
  about,    \* the About dialog is open
  canPack,  \* the skin is unpacked: its directory exists
  menu,     \* which menu items are enabled
  button,   \* which buttons are enabled
  failed,   \* history: "pack" or "unpack" whose assertion failed
  inputs    \* how many commands were chosen

vars == <<posted, about, canPack, menu, button, failed, inputs>>

(* "paste" stands for the menu items nobody contributes to.                *)
Items == {"exit", "about", "pack", "unpack", "paste"}

Command(id) == [id |-> id]
Update(map) == [id |-> "update", map |-> map]         \* from the timer
Updated(map) == [id |-> "updated", map |-> map]       \* the second message

(* What Skin, Help and Frame put into the map.                             *)
Contributed ==
  [exit |-> TRUE, about |-> ~about, ok |-> about,
   pack |-> canPack, unpack |-> ~canPack]

(* All items start enabled, as a new menu does.                            *)
Init ==
  /\ posted = <<>>
  /\ about = FALSE
  /\ canPack \in BOOLEAN
  /\ menu = [i \in Items |-> TRUE]
  /\ button = [b \in Buttons |-> TRUE]
  /\ failed = {}
  /\ inputs = 0

---------------------------------------------------------------------------
(* GetMessage() prefers posted messages to input, and input to WM_TIMER.   *)

(* Skin::updateCommandsState()                                             *)
Timer ==
  /\ posted = <<>>
  /\ posted' = <<Update([i \in Items |-> FALSE])>>
  /\ UNCHANGED <<about, canPack, menu, button, failed, inputs>>

(* An enabled menu item or its accelerator, or an enabled button.          *)
Choose(cmd) ==
  /\ posted = <<>>
  /\ inputs < MaxInputs
  /\ \/ cmd \in Items \ {"exit", "paste"} /\ menu[cmd]
     \/ cmd \in Buttons /\ button[cmd] /\ (cmd = "ok" => about)
  /\ posted' = <<Command(cmd)>>
  /\ inputs' = inputs + 1
  /\ UNCHANGED <<about, canPack, menu, button, failed>>

---------------------------------------------------------------------------
(* The handlers.                                                           *)

Received(id) == posted # <<>> /\ Head(posted).id = id

(* The listeners contribute; ~UpdateCommandsStateMessage() sets the menu   *)
(* and posts a copy of the map.                                            *)
DispatchUpdate ==
  /\ Received("update")
  /\ LET map == Contributed @@ Head(posted).map IN
       /\ menu' = [i \in Items |-> map[i]]
       /\ posted' = Append(Tail(posted), Updated(map))
  /\ UNCHANGED <<about, canPack, button, failed, inputs>>

(* The second message has the same name, so everyone contributes again,    *)
(* and the branch of ButtonPanel that would look at the map is behind a    *)
(* condition that was tested just before: the button is left alone.        *)
DispatchUpdated ==
  /\ Received("updated")
  /\ posted' = Tail(posted)
  /\ UNCHANGED <<about, canPack, menu, button, failed, inputs>>

(* Help: a second dialog is not opened; OK closes the one that is open.    *)
DispatchHelp ==
  /\ Received("about") \/ Received("ok")
  /\ posted' = Tail(posted)
  /\ about' = Received("about")
  /\ UNCHANGED <<canPack, menu, button, failed, inputs>>

(* Skin: pack() needs the directory that unpack() makes.                   *)
DispatchSkin ==
  /\ Received("pack") \/ Received("unpack")
  /\ posted' = Tail(posted)
  /\ LET pack == Received("pack") IN
       IF canPack = pack
       THEN canPack' = ~pack /\ UNCHANGED failed
       ELSE failed' = failed \cup {Head(posted).id} /\ UNCHANGED canPack
  /\ UNCHANGED <<about, menu, button, inputs>>

(* commandImport: nothing that matters here.                               *)
DispatchOther ==
  /\ Received("import")
  /\ posted' = Tail(posted)
  /\ UNCHANGED <<about, canPack, menu, button, failed, inputs>>

Dispatch == DispatchUpdate \/ DispatchUpdated \/ DispatchHelp
            \/ DispatchSkin \/ DispatchOther

Next == Timer \/ Dispatch \/ \E cmd \in Items \cup Buttons : Choose(cmd)

Spec == Init /\ [][Next]_vars

(* Posted messages are dispatched; when there is neither a message nor     *)
(* input the timer's turn comes.                                           *)
FairSpec == Spec /\ WF_vars(Dispatch) /\ WF_vars(Timer)

---------------------------------------------------------------------------
CommandTypeOK ==
  /\ posted \in Seq({Command(c) : c \in Items \cup Buttons}
                    \cup {Update(f) : f \in [Items -> BOOLEAN]}
                    \cup {Updated(f) : f \in [Items \cup {"ok"} -> BOOLEAN]})
  /\ {about, canPack} \subseteq BOOLEAN
  /\ menu \in [Items -> BOOLEAN]
  /\ button \in [Buttons -> BOOLEAN]
  /\ failed \subseteq {"pack", "unpack"}

(* When the user stops choosing commands the menu shows for good what the  *)
(* listeners can do: no update is overtaken by an older one.               *)
MenuCatchesUp ==
  \A i \in Items :
    <>[](menu[i] = (IF i \in DOMAIN Contributed THEN Contributed[i] ELSE FALSE))

(* The two broadcasts of an update do not breed: the queue is empty again  *)
(* and again, or input and timer would be starved.                         *)
UpdatesEnd == []<>(posted = <<>>)

(* "This message comes after everybody has contributed": when it has been  *)
(* dispatched a button is enabled as the map says.                         *)
ButtonsFollow ==
  [][Received("updated") =>
       \A b \in Buttons :
         button'[b] = (b \in DOMAIN Head(posted).map /\ Head(posted).map[b])]_vars

(* Skin::pack() and unpack() assert canPack() and !canPack(): the menu     *)
(* offers them only when they are possible.                                *)
PackIsOffered == failed = {}
=============================================================================
