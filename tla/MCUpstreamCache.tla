--------------------------- MODULE MCUpstreamCache ---------------------------
EXTENDS UpstreamCache

CONSTANTS argo, flux, tool

(* One component comes and goes, one is pinned only, one has no upstream.  *)
MCPlatforms == {{tool}, {argo, tool}}
MCPinned == {{flux}}
===============================================================================
