---------------------------- MODULE MCNativeRefs ----------------------------
EXTENDS NativeRefs, TLC

CONSTANTS root, c2, c3, c4, c5, k1, k2, k3, k4

\* Contexts but the root and keys but the listed one are alike.
Sym == Permutations({c2, c3, c4, c5}) \cup Permutations({k1, k2, k3})

Prog(ops, atomic) == [ops |-> ops, atomic |-> atomic]

\* Vaults of every kind are opened, rotated, watched and closed.
Vaulting ==
  {Prog({"unlock", "createAnonymous", "setPrimary", "vault", "subVault", "vaults",
         "watch", "watchFails", "close"}, TRUE)}

\* One Vault and its watches, also with a key that is not counted.
Watching ==
  {Prog({"unlock", "unlockUser", "createAnonymous", "setPrimary", "watch", "close"}, FALSE)}

\* Sub-vaults are opened while a watch ends.
Sharing == {Prog({"unlock", "watch", "close", "subVault"}, FALSE)}

Both == Vaulting \cup Watching
=============================================================================
