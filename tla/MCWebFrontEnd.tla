--------------------------- MODULE MCWebFrontEnd ---------------------------
(***************************************************************************)
(* Scenes for WebFrontEnd: the pages that are open, the agents there are,  *)
(* and what may still happen.                                              *)
(***************************************************************************)
EXTENDS WebFrontEnd, TLC

CONSTANTS n1, n2, k1, k2, k3, e1, w1, v1, s1, h1, h2

Symmetry == Permutations(Slots)

Agent(id, key, owner, guardian, human) ==
  [id |-> id, key |-> key, owner |-> owner, guardian |-> guardian, human |-> human,
   born |-> 0, died |-> 0, card |-> FALSE, via |-> "other"]

Nothing ==
  [pages |-> {}, agents |-> {}, vault |-> << >>, passkey |-> None, keys |-> {}, fresh |-> {},
   modes |-> {}, tabs |-> {}, setups |-> {}, buttons |-> {}, strangers |-> {},
   guardians |-> {None}, owners |-> {}, tokens |-> 4, changes |-> 2, scans |-> 2,
   sessions |-> 2, ancient |-> {}, expiring |-> {}, asking |-> {}, reloads |-> FALSE,
   faults |-> FALSE, mainnet |-> TRUE, addressBar |-> FALSE, tests |-> FALSE, fakes |-> FALSE,
   chats |-> FALSE]

\* The registration page, by the modes that can disturb each other.
Registering == [Nothing EXCEPT !.pages = {"register"}, !.modes = {"linked", "walletfree"},
                                !.fresh = {k1, k2}]
WithPasskey == [Registering EXCEPT !.modes = {"smartwallet", "walletfree"}, !.reloads = TRUE,
                                   !.scans = 1]
WithPrivy == [Registering EXCEPT !.modes = {"privy"}, !.reloads = TRUE]
WithEd25519 == [Registering EXCEPT !.modes = {"ed25519", "ed25519-linked"}, !.scans = 1]

\* A wallet that is its own agent and owns another, and an agent of a passkey.
Some == {Agent(1, w1, w1, None, h1), Agent(2, k1, w1, None, h1), Agent(3, k2, k2, s1, h2)}

\* "My Agents", while agents come and go.
Lookups == [Nothing EXCEPT !.pages = {"mine"}, !.agents = Some, !.strangers = {k1},
                           !.guardians = {s1}, !.owners = {w1}, !.keys = {k1}, !.changes = 1]
OfWallet == [Lookups EXCEPT !.tabs = {"wallet", "key"}, !.changes = 2]
OfWalletFailing == [OfWallet EXCEPT !.tabs = {"wallet"}, !.faults = TRUE, !.ancient = {2}]
OfPasskey == [Lookups EXCEPT !.tabs = {"passkey"}, !.strangers = {k2}, !.changes = 2,
                             !.buttons = {"revoke"}]
OfKey == [Lookups EXCEPT !.tabs = {"key"}, !.buttons = {"siblings"}, !.faults = TRUE]
OfOwners == [Lookups EXCEPT !.tabs = {"wallet", "privy"}, !.buttons = {"mint"},
               !.agents = {Agent(1, k1, w1, None, h1), Agent(2, k2, v1, None, h1)}]
Polling == [Lookups EXCEPT !.tabs = {"passport", "wallet"}, !.expiring = {1},
                           !.agents = {Agent(1, k1, w1, None, h1)}, !.reloads = TRUE]
PollingPasskey == [Polling EXCEPT !.tabs = {"passkey"}, !.agents = {Agent(1, k1, k1, s1, h1)},
                                  !.reloads = FALSE]

\* "Verify", with the address bar.
Verifying == [Nothing EXCEPT !.pages = {"verify"}, !.agents = Some, !.keys = {k1, k2},
                             !.strangers = {k1}, !.owners = {w1}, !.scans = 1,
                             !.addressBar = TRUE]
VerifyingAll == [Verifying EXCEPT !.keys = {w1, e1, k2}, !.strangers = {}, !.addressBar = FALSE,
                   !.passkey = s1, !.faults = TRUE,
                   !.agents = {Agent(1, w1, w1, None, h1), Agent(2, e1, e1, None, h2), Agent(3, k2, k2, s1, h2)}]

\* The demo: its loaders, then its tests and its chat.
ByKeys == [Nothing EXCEPT !.pages = {"demo"}, !.setups = {"private-key", "passkey"},
             !.agents = {Agent(1, k1, k1, s1, h1), Agent(2, k2, k2, s1, h1)},
             !.keys = {k1, k2, e1}, !.strangers = {k1, k2}, !.guardians = {s1}, !.faults = TRUE]
ByWallets == [ByKeys EXCEPT !.setups = {"private-key", "wallet", "social"}, !.keys = {k1},
                !.agents = {Agent(1, w1, w1, None, h1), Agent(2, v1, v1, None, h1)},
                !.strangers = {w1}]
Testing == [Nothing EXCEPT !.pages = {"demo"}, !.agents = {Agent(1, k1, k1, None, h1)},
              !.setups = {"private-key"}, !.keys = {k1}, !.strangers = {k1}, !.changes = 1,
              !.tests = TRUE, !.asking = {k1}]
InTurn == [Testing EXCEPT !.agents = {Agent(1, w1, w1, None, h1)}, !.setups = {"wallet"},
             !.strangers = {}, !.asking = {}, !.faults = TRUE, !.chats = TRUE]
WithSeed == [Testing EXCEPT !.agents = {Agent(1, k1, k1, None, h1), Agent(2, e1, e1, None, h1)},
               !.keys = {e1}, !.strangers = {}, !.asking = {}, !.fakes = TRUE]

\* A passkey's agent is registered on one page and used on the other.
Together == [WithPasskey EXCEPT !.pages = {"register", "demo"}, !.modes = {"smartwallet"},
               !.setups = {"private-key", "passkey"}, !.keys = {k1}]

AllScenes ==
  {Registering, WithPasskey, WithPrivy, WithEd25519,
   OfWallet, OfWalletFailing, OfPasskey, OfKey, OfOwners, Polling, PollingPasskey,
   Verifying, VerifyingAll, ByKeys, ByWallets, Testing, InTurn, WithSeed, Together}
===============================================================================
