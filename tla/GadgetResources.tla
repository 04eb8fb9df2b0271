-------------------------- MODULE GadgetResources --------------------------
(***************************************************************************)
(* Resources of a VSM GadgetServer and the client's objects for them        *)
(* (ldf/models/vsm/gadgetserver/vsm_gadgetserver_resources.py and the       *)
(* requests of vsm_gadgetserver_v5.py).  An object is fetched, changed and  *)
(* sent back as a whole, less the keys its to_dict leaves out for the       *)
(* purpose, and with texts in the place of booleans; of the settings of a   *)
(* protocol only the display name is kept.                                  *)
(***************************************************************************)
EXTENDS Integers, FiniteSets

CONSTANTS
  Protocols,         \* the client's Protocol objects
  ProtocolHandles,   \* handles the server gives
  DisplayNames,      \* names of protocols
  Blank,             \* the name of ProtocolSettings()
  NoProtocol,        \* of a handle not in use
  NodeFields,        \* the keys of a server node that are followed
  Marks,             \* what their values tell
  MaxResourceCalls   \* bound: requests and changes of one behaviour

ASSUME ResourcesAssumption ==
  /\ Blank \in DisplayNames /\ NoProtocol \notin DisplayNames
  /\ NodeFields \subseteq STRING /\ MaxResourceCalls \in Nat

VARIABLES
  served,    \* the server's protocols: handle to display name
  objs,      \* the client's: whether settings are the object's own, its name
             \* there, and the handle
  default,   \* display name in the ProtocolSettings() of the parameter list
  deleting,  \* delete_ressource: the handle whose type is known
  node,      \* the server's local ServerNode
  doc,       \* the client's ServerNode
  said,      \* history: the name each object was last told, itself
  apart,     \* history: objects given settings, by the caller or by an answer
  made,      \* history: name its object had been told when a protocol was created
             \* from it, which had settings of its own, up to an update
  edited,    \* history: keys of doc the client has changed
  others,    \* history: keys of node that changed since doc was fetched
  requests   \* requests and changes so far

resourcesVars == <<served, objs, default, deleting, node, doc, said, apart, made,
                   edited, others, requests>>

NoObject == [has |-> "nothing", name |-> Blank, handle |-> NoProtocol]

\* A value in JSON, or the text that str() makes of it.
Values == {"value", "text"} \X Marks
Text(v) == <<"text", v[2]>>

ResourcesTypeOK ==
  /\ served \in [ProtocolHandles -> DisplayNames \cup {NoProtocol}]
  /\ objs \in [Protocols -> [has : {"nothing", "own", "default"}, name : DisplayNames,
                             handle : ProtocolHandles \cup {NoProtocol}]]
  /\ default \in DisplayNames /\ said \in [Protocols -> DisplayNames]
  /\ deleting \in ProtocolHandles \cup {NoProtocol}
  /\ apart \subseteq Protocols
  /\ made \in [ProtocolHandles -> DisplayNames \cup {NoProtocol}]
  /\ node \in [NodeFields -> Values] /\ doc \in [NodeFields -> Values]
  /\ edited \subseteq NodeFields /\ others \subseteq NodeFields
  /\ requests \in 0..MaxResourceCalls

-----------------------------------------------------------------------------
(* What to_dict leaves in for a purpose.                                    *)

\* ProtocolSettings
SettingsSends(purpose) ==
  IF purpose \in {"SET", "DELETE"} THEN {}
  ELSE {"SingleValueOptions", "MultiValueOptions", "ActiveAddress", "AddressCollection",
        "DisplayName", "BindingInterface", "StreamType", "IsEnabled", "DriverMapping"}

\* Protocol; empty settings are left out.
ProtocolSends(purpose) ==
  (IF purpose = "GET"
   THEN {"HolderOperationState", "ProtocolHandle", "ProtocolOperationState"} ELSE {})
  \cup (IF purpose \in {"SET", "DELETE"} THEN {} ELSE {"FactoryHandle"})
  \cup SettingsSends(purpose)

\* Mutant of NodeOptionsSends: every purpose is taken for GET.
NodeOptionsSends_All(purpose) ==
  {"Location", "Comment", "ForceSingleServer", "Binding", "ForcePrimaryServer",
   "Uri", "JoinedServers", "CanForcePrimaryServer"}

\* ServerNodeOptions
NodeOptionsSends(purpose) ==
  {"Location", "Comment", "ForceSingleServer", "Binding", "ForcePrimaryServer"}
  \cup (IF purpose \in {"SET", "DELETE"} THEN {}
        ELSE {"Uri", "JoinedServers", "CanForcePrimaryServer"})

\* ServerNodeLicense, with its caps
LicenseSends(purpose) ==
  IF purpose \in {"SET", "DELETE"} THEN {}
  ELSE {"Purpose", "Seed", "Key", "IsLicensed", "Caps"}

\* ServerNodeServerNode
NodeSends(purpose) ==
  NodeOptionsSends(purpose) \cup {"MachineName"} \cup LicenseSends(purpose)
  \cup (IF purpose \in {"SET", "DELETE"} THEN {}
        ELSE {"Version", "StartupTime", "Addresses", "IsLocalServer", "OperationState"})

-----------------------------------------------------------------------------
(* Protocols.                                                               *)

Request == requests < MaxResourceCalls /\ requests' = requests + 1

NameOf(o) == IF objs[o].has = "default" THEN default ELSE objs[o].name

ProtocolCall ==
  Request /\ UNCHANGED <<node, doc, edited, others>>

\* Protocol(...) in the place of object o: with settings of its own, or with the
\* parameter's default, one object for all.
OwnObject(o, name, h) ==
  /\ objs' = [objs EXCEPT ![o] = [has |-> "own", name |-> name, handle |-> h]]
  /\ said' = [said EXCEPT ![o] = name] /\ apart' = apart \cup {o}

SharingObject(o, h) ==
  /\ objs' = [objs EXCEPT ![o] = [has |-> "default", name |-> Blank, handle |-> h]]
  /\ said' = [said EXCEPT ![o] = default] /\ apart' = apart \ {o}

\* Protocol(factory_handle=...)
NewProtocol(o) ==
  /\ ProtocolCall /\ SharingObject(o, NoProtocol)
  /\ UNCHANGED <<served, default, deleting, made>>

\* Protocol(factory_handle=..., settings=ProtocolSettings(display_name=...))
NewWithSettings(o, name) ==
  /\ ProtocolCall /\ OwnObject(o, name, NoProtocol)
  /\ UNCHANGED <<served, default, deleting, made>>

\* Protocol(dictionary=...) of an answer; one without Settings leaves the object
\* the default.
FromAnswer(o, name, h) == OwnObject(o, name, h) \/ SharingObject(o, h)

\* Mutant of GetProtocol: the answer is put into the default settings.
GetProtocol_IntoDefault(o, h) ==
  /\ ProtocolCall /\ served[h] # NoProtocol
  /\ objs' = [objs EXCEPT ![o] = [has |-> "default", name |-> Blank, handle |-> h]]
  /\ default' = served[h]
  /\ said' = [said EXCEPT ![o] = served[h]] /\ apart' = apart \cup {o}
  /\ UNCHANGED <<served, deleting, made>>

\* get_protocol_by_handle; with no such protocol it raises.
GetProtocol(o, h) ==
  /\ ProtocolCall /\ served[h] # NoProtocol /\ FromAnswer(o, served[h], h)
  /\ UNCHANGED <<served, default, deleting, made>>

\* settings.display_name = name
SetDisplayName(o, name) ==
  /\ ProtocolCall /\ objs[o].has # "nothing"
  /\ IF objs[o].has = "own"
     THEN objs' = [objs EXCEPT ![o].name = name] /\ UNCHANGED default
     ELSE default' = name /\ UNCHANGED objs
  /\ said' = [said EXCEPT ![o] = name]
  /\ UNCHANGED <<served, deleting, apart, made>>

\* create_protocol of object o: the server gives a handle, and what it answers
\* with becomes object p, unless the answer does not come.
CreateProtocol(o, p, h) ==
  /\ ProtocolCall /\ objs[o].has # "nothing" /\ served[h] = NoProtocol
  /\ LET name == IF "DisplayName" \in ProtocolSends("CREATE") THEN NameOf(o) ELSE Blank IN
       /\ served' = [served EXCEPT ![h] = name]
       /\ FromAnswer(p, name, h) \/ UNCHANGED <<objs, said, apart>>
  /\ made' = [made EXCEPT ![h] = IF o \in apart THEN said[o] ELSE NoProtocol]
  /\ UNCHANGED <<default, deleting>>

\* update_ressource_type of a Protocol: the server changes what it is sent.
UpdateProtocol(o) ==
  /\ ProtocolCall /\ objs[o].handle # NoProtocol /\ served[objs[o].handle] # NoProtocol
  /\ served' = [served EXCEPT ![objs[o].handle] =
                  IF {"ProtocolHandle", "DisplayName"} \subseteq ProtocolSends("SET")
                  THEN NameOf(o) ELSE @]
  /\ made' = [made EXCEPT ![objs[o].handle] = NoProtocol]
  /\ UNCHANGED <<objs, default, deleting, said, apart>>

\* An answer with an error: it is logged, and update_ressource_type returns None,
\* create_protocol and the others raise.
Refused ==
  /\ Request
  /\ UNCHANGED <<served, objs, default, deleting, node, doc, said, apart, made,
                 edited, others>>

\* delete_ressource looks the type up in a list of all handles ...
LookUpType(h) ==
  /\ ProtocolCall /\ deleting = NoProtocol /\ served[h] # NoProtocol
  /\ deleting' = h
  /\ UNCHANGED <<served, objs, default, said, apart, made>>

\* ... and asks for the deletion, which may be of a handle gone meanwhile.
DeleteProtocol ==
  /\ deleting # NoProtocol
  /\ served' = [served EXCEPT ![deleting] = NoProtocol]
  /\ deleting' = NoProtocol
  /\ UNCHANGED <<objs, default, node, doc, said, apart, made, edited, others, requests>>

\* Another client of the server.
OtherDeletes(h) ==
  /\ ProtocolCall /\ served[h] # NoProtocol
  /\ served' = [served EXCEPT ![h] = NoProtocol]
  /\ UNCHANGED <<objs, default, deleting, said, apart, made>>

-----------------------------------------------------------------------------
(* The server node.                                                         *)

NodeCall == Request /\ UNCHANGED <<served, objs, default, deleting, said, apart, made>>

\* The keys that hold a boolean, and that to_dict makes a text of for every purpose.
Flags == {"ForceSingleServer", "ForcePrimaryServer"}

Sent(f, v) == IF f \in Flags THEN Text(v) ELSE v

\* get_server_node_by_handle
GetNode ==
  /\ NodeCall /\ doc' = node /\ edited' = {} /\ others' = {}
  /\ UNCHANGED node

\* The keys with a setter.
Settable == {"Location", "Comment", "Binding", "CanForcePrimaryServer"}

EditNode(f, x) ==
  /\ NodeCall /\ f \in Settable /\ doc' = [doc EXCEPT ![f] = <<"value", x>>]
  /\ edited' = edited \cup {f}
  /\ UNCHANGED <<node, others>>

\* update_ressource_type of a ServerNode; the server may read a text where it
\* wants a boolean, or keep it.
PutNode ==
  /\ NodeCall
  /\ \E read \in SUBSET Flags :
       node' = [f \in NodeFields |-> IF f \notin NodeSends("SET") THEN node[f]
                                     ELSE IF f \in read THEN <<"value", doc[f][2]>>
                                     ELSE Sent(f, doc[f])]
  /\ UNCHANGED <<doc, edited, others>>

\* The server, or another client.
NodeChanges(f, x) ==
  /\ NodeCall /\ node[f] # <<"value", x>> /\ node' = [node EXCEPT ![f] = <<"value", x>>]
  /\ others' = others \cup {f}
  /\ UNCHANGED <<doc, edited>>

-----------------------------------------------------------------------------
resourcesInit ==
  /\ served \in [ProtocolHandles -> DisplayNames \cup {NoProtocol}]
  /\ made = [h \in ProtocolHandles |-> NoProtocol] /\ apart = {}
  /\ objs = [o \in Protocols |-> NoObject] /\ said = [o \in Protocols |-> Blank]
  /\ default = Blank /\ deleting = NoProtocol
  /\ \E x \in Marks : node = [f \in NodeFields |-> <<"value", x>>]
  /\ doc = node /\ edited = {} /\ others = {} /\ requests = 0

resourcesNext ==
  \/ \E o \in Protocols :
       \/ NewProtocol(o) \/ UpdateProtocol(o)
       \/ \E name \in DisplayNames : NewWithSettings(o, name) \/ SetDisplayName(o, name)
       \/ \E h \in ProtocolHandles :
            GetProtocol(o, h) \/ \E p \in Protocols : CreateProtocol(o, p, h)
  \/ \E h \in ProtocolHandles : LookUpType(h) \/ OtherDeletes(h)
  \/ Refused \/ DeleteProtocol \/ GetNode \/ PutNode
  \/ \E f \in NodeFields, x \in Marks : EditNode(f, x) \/ NodeChanges(f, x)

resourcesSpec == resourcesInit /\ [][resourcesNext]_resourcesVars

-----------------------------------------------------------------------------
(* Properties.                                                              *)

\* An object given settings, by its maker or by an answer of the server, says what
\* it was last told, whatever is done to the others, and a protocol created from
\* such an object has on the server the name the object had been told.
ToldIsSaid ==
  /\ \A o \in apart : NameOf(o) = said[o]
  /\ \A h \in ProtocolHandles : NoProtocol \notin {served[h], made[h]} => served[h] = made[h]

\* The keys that only the server changes.
ServersOwn == {"Uri", "JoinedServers", "Version", "StartupTime", "Addresses",
               "IsLocalServer", "OperationState", "CanForcePrimaryServer"}

\* Sending a node back changes what a key tells only if the client changed the
\* key, or, of what is sent, if somebody else did since the node was fetched; and
\* how it is told, of the keys that to_dict makes texts of.
PutIsExact ==
  [][PutNode => \A f \in NodeFields : node'[f] # node[f] =>
       /\ f \notin ServersOwn
       /\ node'[f][2] # node[f][2] => f \in edited \cup others
       /\ node'[f][1] # node[f][1] => f \in Flags \cup edited \cup others]_resourcesVars

-----------------------------------------------------------------------------
(* Claims of the documentation that the code does not keep.                 *)

\* vsm_gadgetserver_v5.py:315, "Add ProtocolFactory Handle and Settings to add":
\* objects made without settings share one, and the last name told to any of
\* them is the name of all.
NamesAreOwn ==
  \A o \in Protocols : objs[o].has # "nothing" => NameOf(o) = said[o]

\* APIDocumentation.yml:332 and :340, "type: boolean": a node sent back has texts
\* there, which the server need not read.
FlagsAreBoolean == \A f \in NodeFields \cap Flags : node[f] = <<"value", node[f][2]>>

\* vsm_gadgetserver_v5.py:286, "Update a ressource": a protocol is not.
UpdateUpdates ==
  [][\A o \in Protocols : UpdateProtocol(o) => served'[objs[o].handle] = NameOf(o)]_resourcesVars
=============================================================================
