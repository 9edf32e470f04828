----------------------------- MODULE MCSettings -----------------------------
(* Small instances of Settings for TLC. *)
EXTENDS Settings

TwoDirs == {"alpha", "default"}
AllNames == TwoDirs \cup {"named"}
TwoAddresses == {"a1", "a2"}

MainFile(distributed, address, error) ==
    [distributed |-> distributed,
     servers |-> [n \in Names |-> IF n = "named" THEN address ELSE "absent"],
     error |-> error]
ConfFile(address, error) == [address |-> address, error |-> error]

(* The main file lists a server that has no directory; it may be broken.   *)
GoodOrBrokenMain == {MainFile("unset", "a1", "none"), MainFile("no", "unset", "none"),
                     MainFile("no", "a1", "value"), MainFile("yes", "a1", "syntax")}
GoodConf == {ConfFile(a, "none") : a \in TwoAddresses}

(* Any kind of file, and a main file that lists a server with a directory. *)
AnyMain == {MainFile("yes", "a1", "none"), MainFile("no", "a1", "value"),
            MainFile("unset", "a1", "field"),
            [MainFile("yes", "unset", "none") EXCEPT !.servers["alpha"] = "a2"]}
AnyConf == {ConfFile("a1", "none"), ConfFile("unset", "none"), ConfFile("a2", "value"),
            ConfFile("unset", "field")}

OneMain == {MainFile("unset", "absent", "none")}
OneConf == {ConfFile("a1", "none")}
OneDir == {"alpha"}
Plain == {FALSE}
Both == BOOLEAN

(* Contents that an orderly operator does not write: a file broken after   *)
(* its first fields, one that gives no address, and a main file that lists *)
(* a server with a directory.                                              *)
BrokenConf == OneConf \cup {ConfFile("a2", "value")}
UnsetConf == OneConf \cup {ConfFile("unset", "none")}
ListingMain == {[MainFile("unset", "absent", "none") EXCEPT !.servers["alpha"] = "a2"]}
NamingMain == {MainFile("unset", "a1", "none")}
Mcsman == {TRUE}

Careful == {}
Any == {"hasty", "moves", "ignored", "main"}
Hasty == {"hasty"}
Moves == {"moves"}
Ignored == {"ignored"}
Removing == {"main"}

(* A careful run with good files is one of an orderly operator. *)
ASSUME CarefulIsOrderly ==
    /\ Habits = {}
    /\ MainContents \subseteq GoodOrBrokenMain
    /\ ConfContents \subseteq GoodConf
    => Orderly

=============================================================================
