SPECIFICATION LedSpec
CONSTANTS
  MaxLed = 3
PROPERTY LedAutoObeyed
