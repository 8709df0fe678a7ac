---------------------------- MODULE SourceConfig ----------------------------
(***************************************************************************)
(* From the command line to the block source: src/src/pseudo_peer/cli.rs,  *)
(* src/src/pseudo_peer/config.rs, and what the chain decides               *)
(* (src/src/chainspec, src/src/node/spot_meta.rs).                         *)
(***************************************************************************)
EXTENDS Options, Sequences

(* chain_value_parser. *)
SupportedChains == {"mainnet", "testnet"}

(* official_s3_bucket. *)
official_s3_bucket(chain) ==
  IF chain = "mainnet" THEN "hl-mainnet-evm-blocks" ELSE "hl-testnet-evm-blocks"

(* The address fetch_spot_meta asks. *)
spot_api(chain) ==
  IF chain = "mainnet" THEN "api.hyperliquid.xyz" ELSE "api.hyperliquid-testnet.xyz"

(* The configurations of BlockSourceConfig. *)
s3_default == [type |-> "S3Default", at |-> None, node |-> None]
s3(bucket) == [type |-> "S3", at |-> bucket, node |-> None]
local(path) == [type |-> "Local", at |-> path, node |-> None]
HomeDir == [absolute |-> TRUE, name |-> "~/hl/data/evm_blocks_and_receipts"]
local_default == local(HomeDir)

(***************************************************************************)
(* create_base_config: the flags come before the option.  block_source is  *)
(* an optional record [bucket] or [absolute, name], what is behind s3:// or*)
(* a path.  None stands for the error.                                     *)
(***************************************************************************)
create_base_config(args) ==
  IF args.s3 THEN s3_default
  ELSE IF args.local THEN local_default
  ELSE IF args.block_source = None THEN None
  ELSE IF "bucket" \in DOMAIN args.block_source.some THEN s3(args.block_source.some.bucket)
  ELSE local(args.block_source.some)

(* apply_node_source_config. *)
apply_node_source_config(args, config) ==
  IF args.local_ingest_dir = None THEN config
  ELSE [config EXCEPT !.node = args.local_ingest_dir]

(* BlockSourceArgs::parse. *)
parse(args) ==
  IF create_base_config(args) = None THEN None
  ELSE apply_node_source_config(args, create_base_config(args))

(* create_block_source. *)
create_block_source(config, chain) ==
  CASE config.type = "S3Default" -> [kind |-> "S3", at |-> official_s3_bucket(chain)]
    [] config.type = "S3" -> [kind |-> "S3", at |-> config.at]
    [] config.type = "Local" -> [kind |-> "Local", at |-> config.at]

(* create_cached_block_source: the sources, from the outermost to the innermost. *)
create_cached_block_source(config, chain) ==
  <<[kind |-> "Cached"]>>
    \o (IF config.node = None THEN <<>> ELSE <<[kind |-> "HlNode", at |-> config.node.some]>>)
    \o <<create_block_source(config, chain)>>
=============================================================================
